---- MODULE Spec2Model ----
(***************************************************************************)
(* Ledger and risk engine of astrbot_plugin_pet_market (src/main.py).      *)
(*                                                                         *)
(* One module, several specifications over the same variables:             *)
(*   Spec        the ledger: loan, repayment, accrual, liquidation,        *)
(*               escape, transfer, purchase and the clawback queue, each   *)
(*               command one atomic step (a command holds its own entity   *)
(*               lock for the whole critical section);                     *)
(*   SpecLiq     _check_and_liquidate applied to drawn account states;     *)
(*   SpecAccrual _update_loan_interest called repeatedly as time passes;   *)
(*   SpecLock    commands as processes that acquire entity locks;          *)
(*   SpecLockFair the same with weak fairness of every process step;       *)
(*   SpecSave    dirty flag, version counter, autosave loop, worker-thread *)
(*               write, market loop and terminate;                         *)
(*   SpecLoad    start-up: _init_env, _load_data, _try_restore_backup;     *)
(*   SpecBank    the ledger with deposit, withdraw, robbery, jail, items   *)
(*               and the market commands, from three starting stores;      *)
(*   SpecPets    ownership: purchase with housing, release, ransom,        *)
(*               escape and the forced release of excess pets;             *)
(*   SpecLoan    take_loan and repay_loan around the credit limit;         *)
(*   SpecClaw    _process_debt_queue on drawn debtors and targets;         *)
(*   SpecGet     _get_user_data on present and absent keys;                *)
(*   SpecMarket  update_market on drawn prices and shocks;                 *)
(*   SpecTrade   buy_instrument and sell_instrument as the price moves;    *)
(*   SpecRound   selling a whole holding and buying back with the proceeds;*)
(*   SpecInvest  _check_investment_trigger and _settle_investments;        *)
(*   SpecReliq   a frozen debtor who repays, borrows, transfers and is     *)
(*               liquidated again;                                         *)
(*   SpecEnq     the queue drained after the debtor changed its debt;      *)
(*   SpecStale   the queue drained after manual_cleanup emptied the store; *)
(*   SpecCap     _update_loan_interest under several cap multipliers;      *)
(*   SpecNet     handlers suspended at their network awaits while other    *)
(*               handlers and manual_cleanup run;                          *)
(*   SpecSettle  _settle_investments on drawn investments and trends;      *)
(*   SpecDirty   deposit and withdraw on the store of accounts, with the   *)
(*               dirty flag and the autosave loop;                         *)
(*   SpecDrain   the clawback queue, its drain and terminate.              *)
(***************************************************************************)
EXTENDS Integers, Sequences, FiniteSets, TLC

VARIABLES
    accounts,     \* pet_data[group]: user id -> account record
    debt_queue,   \* self.debt_queue: sequence of clawback tasks
    draining,     \* local `tasks` of a running _process_debt_queue
    now,          \* int(time.time()), seconds since the model's origin
    steps,        \* number of commands executed so far (bounds the run)
    last,         \* what the most recent step did (command, sender, outcome)
    pre,          \* SpecLiq: the store as the last command found it
    hist,         \* SpecAccrual: the last two calls of _update_loan_interest
    pet_data,     \* self.pet_data as a whole: 0 is the empty store, every
                  \* mutation yields the next store
    disk,         \* DATA_FILE
    backups,      \* BACKUP_DIR: the backup files, oldest first
    dirty,        \* self._dirty
    dirty_version,\* self._dirty_version
    save_pc,      \* _auto_save_loop: "sleep", "writing" or "done"
    version_before, \* local of _auto_save_loop
    data_copy,    \* local of _save_data_async: the deep copy handed over
    writer_pc,    \* _executor's thread: "idle", "queued", "open", "finished"
    last_write,   \* outcome of the worker's latest write: "none", "ok", "failed"
    io_failed,    \* some file write has raised so far
    market_pc,    \* _market_update_loop: "sleep", "sleep60" or "done"
    market_ticks, \* number of market refreshes so far
    term_pc,      \* terminate: "running" (not called), "await_save", "returned"
    ready,        \* event loop's ready queue of tasks woken by terminate
    load_pc,      \* __init__: "start", "env" (after _init_env), "done"
    pc,           \* SpecLock: position of every command
    cmd,          \* SpecLock: the command every process runs
    lockHolder,   \* session_lock_manager: user id -> process holding its lock
    market,       \* market_manager.market_data["instruments"]: code ->
                  \* current_price (in units of 0.0001) and the change
                  \* the latest update_market applied (in units of 0.00001)
    outbox        \* the messages the most recent step sent with event.send

ledgerVars == <<accounts, debt_queue, draining, now, steps, last>>
saveVars == <<pet_data, disk, backups, dirty, dirty_version, save_pc,
              version_before, data_copy, writer_pc, last_write, io_failed,
              market_pc, market_ticks, term_pc, ready>>
loadVars == <<load_pc>>
lockVars == <<pc, cmd, lockHolder>>
envVars == <<market, outbox>>
restVars == <<saveVars, loadVars, lockVars, market>>

(***************************************************************************)
(* Bounds of the model.                                                    *)
(***************************************************************************)
MaxSteps == 6
MaxNow == 7200
MaxLiqCmds == 1
MaxNowAccrual == 9000
MaxMutations == 2
MaxMarketTicks == 1
MaxBackups == 2
MaxStore == 2

(***************************************************************************)
(* Program constants and the configuration the model runs under.  The      *)
(* cooldowns of purchase, transfer, train and work and the protection      *)
(* after a ransom are configured as 0.                                     *)
(***************************************************************************)
INITIAL_COINS == 150
safe_limit == 1000
DEFAULT_VALUE == 100
SECONDS_PER_HOUR == 3600
ESCAPE_COOLDOWN == 300
\* loan_interest_rate as the fraction RateNum/RateDen = 1 + rate (rate 0.5)
RateNum == 3
RateDen == 2
\* loan_interest_max_multiplier in percent (1.0)
MaxMultiplierPct == 100
loan_limit_per_level == 5000
transfer_min_amount == 100
\* transfer_fee_rate in percent (0.1)
TransferFeePct == 10
\* 80% sale price of a liquidated pet
PetSalePct == 80
\* unix time 0 seen from the model's clock origin (a cooldown never set)
EPOCH == -1000000

Users == {1, 2}
NoUser == 0
LoanAmounts == {100}
TransferAmounts == {100}
\* 0 stands for "no amount given": repay everything
RepayAmounts == {0, 100}
ValueIncreases == {10}
TickSteps == {3600}

Min(a, b) == IF a < b THEN a ELSE b
Max(a, b) == IF a > b THEN a ELSE b
Abs(a) == IF a < 0 THEN 0 - a ELSE a

RECURSIVE Pow(_, _)
Pow(b, e) == IF e <= 0 THEN 1 ELSE b * Pow(b, e - 1)

RECURSIVE SeqRemove(_, _)
\* list.remove(x): drops the first occurrence
SeqRemove(s, x) ==
    IF s = <<>> THEN <<>>
    ELSE IF Head(s) = x THEN Tail(s)
    ELSE <<Head(s)>> \o SeqRemove(Tail(s), x)

InSeq(x, s) == \E i \in 1..Len(s) : s[i] = x

\* SHOP_ITEMS: the amulet, Pandora's box and the smuggled goods
Items == {"102", "108", "109"}
\* the instruments of the market: the steadiest fund and the wildest coin
Instruments == {"F101", "C304"}

(***************************************************************************)
(* _get_user_data: the record a new account is created with.  A missing   *)
(* rob_pending_penalty (None) is the empty sequence; a missing inventory  *)
(* counts 0 of every item; a missing holding has 0 shares, and shares are *)
(* kept in units of 0.01.                                                 *)
(***************************************************************************)
\* the holding buy_instrument starts from when the user has none
NoHolding == [shares |-> 0, total_cost |-> 0, avg_price |-> 0]

NewAccount(t) ==
    [coins |-> INITIAL_COINS, value |-> DEFAULT_VALUE, pets |-> <<>>,
     master |-> NoUser, bank |-> 0, bank_level |-> 1,
     loan_amount |-> 0, loan_principal |-> 0, loan_interest_frozen |-> FALSE,
     last_loan_interest_time |-> t, loan_transfers |-> <<>>,
     cd_escape |-> EPOCH, last_interest_time |-> t, jailed_until |-> 0,
     rob_fail_streak |-> 0, rob_pending_penalty |-> <<>>,
     house_count |-> 1, rented_house_expiry |-> 0,
     inventory |-> [i \in Items |-> 0],
     holdings |-> [c \in Instruments |-> NoHolding],
     investments |-> <<>>]

(***************************************************************************)
(* _update_loan_interest(user_data) at time t: the account afterwards and  *)
(* the value returned.                                                     *)
(***************************************************************************)
TheoreticalLoan(loan_total, hours) ==
    (loan_total * Pow(RateNum, hours)) \div Pow(RateDen, hours)

\* int(principal * (1 + max_multiplier)), the multiplier in percent
MaxLoanAt(pct, principal) == (principal * (100 + pct)) \div 100

MaxLoan(principal) == MaxLoanAt(MaxMultiplierPct, principal)

\* mutant: the compounded amount is never capped
NewLoanAt_Uncapped(pct, loan_total, principal, hours) ==
    TheoreticalLoan(loan_total, hours)

\* new_loan under loan_interest_max_multiplier = pct / 100
NewLoanAt(pct, loan_total, principal, hours) ==
    IF pct <= 0 THEN TheoreticalLoan(loan_total, hours)
    ELSE IF principal > 0
         THEN Min(TheoreticalLoan(loan_total, hours),
                  MaxLoanAt(pct, principal))
         ELSE TheoreticalLoan(loan_total, hours)

NewLoan(loan_total, principal, hours) ==
    NewLoanAt(MaxMultiplierPct, loan_total, principal, hours)

ElapsedHours(a, t) == (t - a.last_loan_interest_time) \div SECONDS_PER_HOUR

\* mutant: the watermark is not advanced after interest was added
update_loan_interest_NoAdvance(a, t) ==
    IF a.loan_amount <= 0 \/ a.loan_interest_frozen
    THEN [acct |-> [a EXCEPT !.last_loan_interest_time = t,
                             !.loan_principal =
                                 IF a.loan_amount <= 0 THEN 0 ELSE @,
                             !.loan_interest_frozen =
                                 IF a.loan_amount <= 0 THEN FALSE ELSE @],
          added |-> 0]
    ELSE IF ElapsedHours(a, t) >= 1
    THEN LET new_loan == NewLoan(a.loan_amount, a.loan_principal,
                                 ElapsedHours(a, t))
             interest_added == new_loan - a.loan_amount
         IN [acct |-> [a EXCEPT !.loan_amount =
                                    IF interest_added > 0 THEN new_loan ELSE @],
             added |-> interest_added]
    ELSE [acct |-> a, added |-> 0]

\* mutant: the frozen flag does not stop the accrual
update_loan_interest_at_Thaw(pct, a, t) ==
    IF a.loan_amount <= 0
    THEN [acct |-> [a EXCEPT !.last_loan_interest_time = t,
                             !.loan_principal = 0,
                             !.loan_interest_frozen = FALSE],
          added |-> 0]
    ELSE IF ElapsedHours(a, t) >= 1
    THEN LET new_loan == NewLoanAt(pct, a.loan_amount, a.loan_principal,
                                   ElapsedHours(a, t))
             interest_added == new_loan - a.loan_amount
         IN [acct |-> [a EXCEPT !.loan_amount =
                                    IF interest_added > 0 THEN new_loan ELSE @,
                                !.last_loan_interest_time = t],
             added |-> interest_added]
    ELSE [acct |-> a, added |-> 0]

\* _update_loan_interest under loan_interest_max_multiplier = pct / 100
update_loan_interest_at(pct, a, t) ==
    IF a.loan_amount <= 0 \/ a.loan_interest_frozen
    THEN [acct |-> [a EXCEPT !.last_loan_interest_time = t,
                             !.loan_principal =
                                 IF a.loan_amount <= 0 THEN 0 ELSE @,
                             !.loan_interest_frozen =
                                 IF a.loan_amount <= 0 THEN FALSE ELSE @],
          added |-> 0]
    ELSE IF ElapsedHours(a, t) >= 1
    THEN LET new_loan == NewLoanAt(pct, a.loan_amount, a.loan_principal,
                                   ElapsedHours(a, t))
             interest_added == new_loan - a.loan_amount
         IN [acct |-> [a EXCEPT !.loan_amount =
                                    IF interest_added > 0 THEN new_loan ELSE @,
                                !.last_loan_interest_time = t],
             added |-> interest_added]
    ELSE [acct |-> a, added |-> 0]

update_loan_interest(a, t) == update_loan_interest_at(MaxMultiplierPct, a, t)

(***************************************************************************)
(* _check_and_liquidate(group, user, user_data).                           *)
(***************************************************************************)
\* mutant: a frozen account is liquidated again
LiquidationTriggers_Refreeze(a) ==
    /\ MaxMultiplierPct > 0
    /\ a.loan_amount > 0
    /\ a.loan_amount >= (a.loan_principal * (100 + MaxMultiplierPct)) \div 100

LiquidationTriggers(a) ==
    /\ MaxMultiplierPct > 0
    /\ a.loan_amount > 0
    /\ ~a.loan_interest_frozen
    /\ a.loan_amount >= MaxLoan(a.loan_principal)

\* mutant: the cash step without the safety floor
SeizeCash_NoFloor(a) == Min(a.coins, a.loan_amount)

\* step 1: cash above the safety floor, at most the debt
SeizeCash(a) ==
    IF a.coins > safe_limit
    THEN Min(a.coins - safe_limit, a.loan_amount)
    ELSE 0

\* step 2: bank balance, at most the debt left after step 1
SeizeBank(a) ==
    LET remaining_debt_1 == a.loan_amount - SeizeCash(a)
    IN IF remaining_debt_1 > 0 /\ a.bank > 0
       THEN Min(a.bank, remaining_debt_1)
       ELSE 0

MarketValue(accts, pet_id) == (accts[pet_id].value * PetSalePct) \div 100

\* mutant: every pet is sold, whatever the proceeds so far
PetsSold_All(accts, pets, pets_income, remaining_debt_2) == pets

RECURSIVE PetsSold(_, _, _, _)
\* step 3: the pets sold, in list order, until the proceeds cover the debt
PetsSold(accts, pets, pets_income, remaining_debt_2) ==
    IF pets = <<>> \/ pets_income >= remaining_debt_2 THEN <<>>
    ELSE <<Head(pets)>> \o
         PetsSold(accts, Tail(pets),
                  pets_income + MarketValue(accts, Head(pets)),
                  remaining_debt_2)

RECURSIVE SumValues(_, _)
SumValues(accts, pets) ==
    IF pets = <<>> THEN 0
    ELSE MarketValue(accts, Head(pets)) + SumValues(accts, Tail(pets))

SoldPets(accts, a) ==
    LET remaining_debt_2 == a.loan_amount - SeizeCash(a) - SeizeBank(a)
    IN IF remaining_debt_2 > 0
       THEN PetsSold(accts, a.pets, 0, remaining_debt_2)
       ELSE <<>>

RECURSIVE RemoveAll(_, _)
RemoveAll(s, xs) ==
    IF xs = <<>> THEN s ELSE RemoveAll(SeqRemove(s, Head(xs)), Tail(xs))

\* mutant: two tasks for every recorded transfer
ClawbackTasks_Twice(user_id, transfers) ==
    [i \in 1..(2 * Len(transfers)) |->
        [debtor_id |-> user_id,
         target_id |-> transfers[(i + 1) \div 2].target,
         amount |-> transfers[(i + 1) \div 2].amount]]

ClawbackTasks(user_id, transfers) ==
    [i \in 1..Len(transfers) |->
        [debtor_id |-> user_id, target_id |-> transfers[i].target,
         amount |-> transfers[i].amount]]

\* mutant: no welfare grant
TopUp_None(coins) == coins

TopUp(coins) == IF coins < INITIAL_COINS THEN INITIAL_COINS ELSE coins

\* the debtor's record after the liquidation of `a` (a = accts[user_id])
LiquidatedAccount(accts, a) ==
    LET sold == SoldPets(accts, a)
        total_repay == SeizeCash(a) + SeizeBank(a) + SumValues(accts, sold)
        new_loan == Max(0, a.loan_amount - total_repay)
        coins1 == a.coins - SeizeCash(a)
        coins2 == IF new_loan > 0 THEN coins1
                  ELSE coins1 + Abs(a.loan_amount - total_repay)
    IN [a EXCEPT !.coins = TopUp(coins2),
                 !.bank = @ - SeizeBank(a),
                 !.pets = RemoveAll(@, sold),
                 !.loan_amount = new_loan,
                 !.loan_principal = IF new_loan > 0 THEN @ ELSE 0,
                 !.loan_interest_frozen = (new_loan > 0),
                 !.loan_transfers = IF new_loan > 0 THEN <<>> ELSE @]

\* the whole store after the liquidation of user_id, whose record is `a`
LiquidatedStore(accts, user_id, a) ==
    LET sold == SoldPets(accts, a)
    IN [u \in DOMAIN accts |->
          IF u = user_id THEN LiquidatedAccount(accts, a)
          ELSE IF InSeq(u, sold) THEN [accts[u] EXCEPT !.master = NoUser]
          ELSE accts[u]]

\* _update_loan_interest followed by _check_and_liquidate, as take_loan,
\* repay_loan, bank_info and my_pets start: whether liquidation ran, the
\* store afterwards, the clawback tasks enqueued, the interest added and
\* the messages sent with event.send
AccrueAndCheck(accts, user_id, t) ==
    LET a == update_loan_interest(accts[user_id], t).acct
        accts1 == [accts EXCEPT ![user_id] = a]
    IN IF LiquidationTriggers(a)
       THEN [ran |-> TRUE, accts |-> LiquidatedStore(accts1, user_id, a),
             tasks |-> ClawbackTasks(user_id,
                         IF LiquidatedAccount(accts1, a).loan_amount > 0
                         THEN a.loan_transfers ELSE <<>>),
             added |-> update_loan_interest(accts[user_id], t).added,
             notices |-> <<[to |-> user_id, text |-> "liquidation"]>>]
       ELSE [ran |-> FALSE, accts |-> accts1, tasks |-> <<>>,
             added |-> update_loan_interest(accts[user_id], t).added,
             notices |-> <<>>]

(***************************************************************************)
(* The ledger commands.  Each is one step: the command holds the entity    *)
(* lock of its sender from _get_user_data to _save_user_data.              *)
(***************************************************************************)
Result(op, user, arg, res) ==
    [op |-> op, user |-> user, arg |-> arg, res |-> res]

Step == /\ steps < MaxSteps
        /\ steps' = steps + 1
        /\ UNCHANGED <<pre, hist, restVars>>

\* the step sends nothing with event.send
Quiet == outbox' = <<>>

get_loan_limit(level) == level * loan_limit_per_level

\* take_loan, after accrual and a liquidation check that did not trigger
LoanGranted(user, amount) ==
    [user EXCEPT !.loan_amount = @ + amount,
                 !.coins = @ + amount,
                 !.loan_principal = @ + amount]

\* mutant: a loan that reaches the limit exactly is turned away
LoanRejected_AtLimit(user, amount) ==
    user.loan_amount + amount >= get_loan_limit(user.bank_level)

LoanRejected(user, amount) ==
    user.loan_amount + amount > get_loan_limit(user.bank_level)

TakeLoan(u, amount) ==
    /\ Step
    /\ amount > 0
    /\ outbox' = AccrueAndCheck(accounts, u, now).notices
    /\ LET r == AccrueAndCheck(accounts, u, now)
       IN IF r.ran
          THEN /\ accounts' = r.accts
               /\ debt_queue' = debt_queue \o r.tasks
               /\ last' = Result("take_loan", u, amount, "liquidated")
          ELSE IF LoanRejected(r.accts[u], amount)
          THEN /\ accounts' = r.accts
               /\ debt_queue' = debt_queue
               /\ last' = Result("take_loan", u, amount, "rejected")
          ELSE /\ accounts' = [r.accts EXCEPT ![u] = LoanGranted(@, amount)]
               /\ debt_queue' = debt_queue
               /\ last' = Result("take_loan", u, amount, "ok")
    /\ UNCHANGED <<draining, now>>

\* repay_loan: amount 0 stands for the optional amount left out
RealRepay(user, amount) ==
    Min(IF amount = 0 THEN user.loan_amount ELSE amount, user.loan_amount)

\* mutant: the recorded principal is never lowered by a part payment
Repaid_KeepPrincipal(user, amount) ==
    LET real_repay == RealRepay(user, amount)
        loan1 == user.loan_amount - real_repay
    IN IF loan1 <= 0
       THEN [user EXCEPT !.coins = @ - real_repay,
                         !.loan_amount = 0,
                         !.loan_principal = 0,
                         !.loan_interest_frozen = FALSE,
                         !.loan_transfers = <<>>]
       ELSE [user EXCEPT !.coins = @ - real_repay,
                         !.loan_amount = loan1]

Repaid(user, amount) ==
    LET real_repay == RealRepay(user, amount)
        loan1 == user.loan_amount - real_repay
        principal1 == IF loan1 < user.loan_principal THEN loan1
                      ELSE user.loan_principal
    IN IF loan1 <= 0
       THEN [user EXCEPT !.coins = @ - real_repay,
                         !.loan_amount = 0,
                         !.loan_principal = 0,
                         !.loan_interest_frozen = FALSE,
                         !.loan_transfers = <<>>]
       ELSE [user EXCEPT !.coins = @ - real_repay,
                         !.loan_amount = loan1,
                         !.loan_principal = principal1]

RepayLoan(u, amount) ==
    /\ Step
    /\ outbox' = AccrueAndCheck(accounts, u, now).notices
    /\ LET r == AccrueAndCheck(accounts, u, now)
           user == r.accts[u]
       IN IF r.ran
          THEN /\ accounts' = r.accts
               /\ debt_queue' = debt_queue \o r.tasks
               /\ last' = Result("repay_loan", u, amount, "liquidated")
          ELSE IF user.loan_amount <= 0
          THEN /\ accounts' = [r.accts EXCEPT ![u].loan_principal = 0,
                                              ![u].loan_interest_frozen = FALSE]
               /\ debt_queue' = debt_queue
               /\ last' = Result("repay_loan", u, amount, "no_debt")
          ELSE IF user.coins < RealRepay(user, amount)
          THEN /\ accounts' = r.accts
               /\ debt_queue' = debt_queue
               /\ last' = Result("repay_loan", u, amount, "rejected")
          ELSE /\ accounts' = [r.accts EXCEPT ![u] = Repaid(@, amount)]
               /\ debt_queue' = debt_queue
               /\ last' = Result("repay_loan", u, amount, "ok")
    /\ UNCHANGED <<draining, now>>

\* bank_info: accrual, liquidation check, save
BankInfo(u) ==
    /\ Step
    /\ outbox' = AccrueAndCheck(accounts, u, now).notices
    /\ LET r == AccrueAndCheck(accounts, u, now)
       IN /\ accounts' = r.accts
          /\ debt_queue' = debt_queue \o r.tasks
          /\ last' = Result("bank_info", u, 0,
                            IF r.ran THEN "liquidated" ELSE "ok")
    /\ UNCHANGED <<draining, now>>

\* escape: a pet tries to leave its master
EscapeSucceeded(accts, u) ==
    LET master_id == accts[u].master
    IN [accts EXCEPT ![u].master = NoUser,
                     ![u].cd_escape = now,
                     ![master_id].pets = SeqRemove(@, u)]

EscapeFailed(accts, u) ==
    LET user == accts[u]
    IN IF user.loan_amount > 0
       THEN [accts EXCEPT ![u].loan_amount = @ + user.loan_amount,
                          ![u].loan_principal = @ + user.loan_amount,
                          ![u].cd_escape = now]
       ELSE [accts EXCEPT ![u].loan_amount = user.value,
                          ![u].loan_principal = user.value,
                          ![u].cd_escape = now]

Escape(u, success) ==
    /\ Step
    /\ Quiet
    /\ accounts[u].master # NoUser
    /\ now - accounts[u].cd_escape >= ESCAPE_COOLDOWN
    /\ accounts' = IF success THEN EscapeSucceeded(accounts, u)
                   ELSE EscapeFailed(accounts, u)
    /\ last' = Result("escape", u, 0, IF success THEN "ok" ELSE "failed")
    /\ UNCHANGED <<debt_queue, draining, now>>

\* transfer of `amount` from u to target, with the fee on top
TransferFee(amount) == (amount * TransferFeePct) \div 100

Transferred(accts, u, target, amount) ==
    LET rec == [target |-> target, amount |-> amount]
    IN [accts EXCEPT
          ![u].coins = @ - (amount + TransferFee(amount)),
          ![target].coins = @ + amount,
          ![u].loan_transfers =
              IF accts[u].loan_amount > 0 THEN Append(@, rec) ELSE @]

Transfer(u, target, amount) ==
    /\ Step
    /\ Quiet
    /\ target # u
    /\ amount >= transfer_min_amount
    /\ accounts[u].coins >= amount + TransferFee(amount)
    /\ accounts' = Transferred(accounts, u, target, amount)
    /\ last' = Result("transfer", u, amount, "ok")
    /\ UNCHANGED <<debt_queue, draining, now>>

\* mutant: the previous master is paid but keeps the pet in its list
Purchased_KeepOld(accts, u, target, value_increase) ==
    LET cost == accts[target].value
        old_master == accts[target].master
        a1 == [accts EXCEPT ![u].coins = @ - cost,
                            ![u].pets = Append(@, target),
                            ![target].value = @ + value_increase,
                            ![target].master = u]
    IN IF old_master = NoUser
       THEN [a1 EXCEPT ![target].coins = @ + cost \div 2]
       ELSE [a1 EXCEPT ![old_master].coins = @ + cost]

\* purchase_pet of target by u; value_increase is the random 10..30
Purchased(accts, u, target, value_increase) ==
    LET cost == accts[target].value
        old_master == accts[target].master
        a1 == [accts EXCEPT ![u].coins = @ - cost,
                            ![u].pets = Append(@, target),
                            ![target].value = @ + value_increase,
                            ![target].master = u]
    IN IF old_master = NoUser
       THEN [a1 EXCEPT ![target].coins = @ + cost \div 2]
       ELSE [a1 EXCEPT ![old_master].coins = @ + cost,
                       ![old_master].pets = SeqRemove(@, target)]

PurchasePet(u, target, value_increase) ==
    /\ Step
    /\ Quiet
    /\ target # u
    /\ accounts[u].master # target
    /\ ~InSeq(target, accounts[u].pets)
    /\ accounts[target].master # u
    /\ accounts[u].coins >= accounts[target].value
    /\ accounts' = Purchased(accounts, u, target, value_increase)
    /\ last' = Result("purchase_pet", u, target, "ok")
    /\ UNCHANGED <<debt_queue, draining, now>>

(***************************************************************************)
(* _process_debt_queue: the drain takes the whole queue, then handles one  *)
(* task per lock acquisition.                                              *)
(***************************************************************************)
\* mutant: the pass copies the queue and leaves the tasks on it
DrainStart_KeepQueue ==
    /\ Step
    /\ Quiet
    /\ draining = <<>>
    /\ debt_queue # <<>>
    /\ draining' = debt_queue
    /\ debt_queue' = debt_queue
    /\ last' = Result("drain", NoUser, 0, "ok")
    /\ UNCHANGED <<accounts, now>>

DrainStart ==
    /\ Step
    /\ Quiet
    /\ draining = <<>>
    /\ debt_queue # <<>>
    /\ draining' = debt_queue
    /\ debt_queue' = <<>>
    /\ last' = Result("drain", NoUser, 0, "ok")
    /\ UNCHANGED <<accounts, now>>

\* mutant: the bank balance is taken before the coins
Clawback_BankFirst(accts, task) ==
    LET debtor == accts[task.debtor_id]
        target == accts[task.target_id]
        debt == debtor.loan_amount
        max_clawback == Min(task.amount, debt)
        deduct_bank == Max(0, Min(target.bank, max_clawback))
        deduct_coins == Max(0, Min(target.coins, max_clawback - deduct_bank))
    IN IF debt <= 0 THEN accts
       ELSE [accts EXCEPT
               ![task.target_id].coins = @ - deduct_coins,
               ![task.target_id].bank = @ - deduct_bank,
               ![task.debtor_id].loan_amount = @ - deduct_coins - deduct_bank]

\* mutant: the whole cap is taken from the target's coins
Clawback_Uncapped(accts, task) ==
    LET max_clawback == Min(task.amount, accts[task.debtor_id].loan_amount)
    IN [accts EXCEPT ![task.target_id].coins = @ - max_clawback,
                     ![task.debtor_id].loan_amount = @ - max_clawback]

\* one task, both locks held
Clawback(accts, task) ==
    LET debtor == accts[task.debtor_id]
        target == accts[task.target_id]
        debt == debtor.loan_amount
        max_clawback == Min(task.amount, debt)
        deduct_coins == Min(target.coins, max_clawback)
        remaining_need == max_clawback - deduct_coins
        deduct_bank == IF remaining_need > 0
                       THEN Max(0, Min(target.bank, remaining_need))
                       ELSE 0
    IN IF debt <= 0 THEN accts
       ELSE [accts EXCEPT
               ![task.target_id].coins = @ - deduct_coins,
               ![task.target_id].bank = @ - deduct_bank,
               ![task.debtor_id].loan_amount = @ - deduct_coins - deduct_bank]

\* the next task of the pass; ok = FALSE is an exception raised while the
\* locks are taken or the records are read, caught and logged by the loop
ProcessTask(ok) ==
    /\ Step
    /\ Quiet
    /\ draining # <<>>
    /\ accounts' = IF ok THEN Clawback(accounts, Head(draining))
                 ELSE accounts
    /\ draining' = Tail(draining)
    /\ last' = Result("clawback", Head(draining).debtor_id,
                      Head(draining).amount, IF ok THEN "ok" ELSE "error")
    /\ UNCHANGED <<debt_queue, now>>

Tick(d) ==
    /\ now + d <= MaxNow
    /\ Quiet
    /\ now' = now + d
    /\ last' = Result("tick", NoUser, d, "ok")
    /\ UNCHANGED <<accounts, debt_queue, draining, steps, pre, hist, restVars>>

(***************************************************************************)
(* MarketManager.  Prices are kept in units of 0.0001 (update_market       *)
(* rounds to four places), volatility, drift and percentage changes in     *)
(* units of 0.00001.  A draw of random.gauss(0, 1) is one of GaussDraws.   *)
(***************************************************************************)
PriceScale == 10000
ChangeScale == 100000
\* max(0.01, new_price)
MinPrice == 100

GaussDraws == {-3, 0, 1, 3}

default_instruments ==
    [c \in Instruments |->
        IF c = "F101"
        THEN [base_price |-> 10000, volatility |-> 100, drift |-> 5]
        ELSE [base_price |-> 100, volatility |-> 80000, drift |-> 0]]

\* _init_market
InitMarket ==
    [c \in Instruments |->
        [current_price |-> default_instruments[c].base_price,
         change_percent |-> 0]]

\* mutant: no circuit breaker
Clamp_None(x, m) == x

\* max(min(x, m), -m)
Clamp(x, m) == Max(Min(x, m), 0 - m)

\* round(n / d) of a non-negative quotient
RoundDiv(n, d) == (n \div d) + (IF 2 * (n % d) >= d THEN 1 ELSE 0)

\* change_percent of one instrument for one draw
change_percent(code, gauss) ==
    LET i == default_instruments[code]
    IN Clamp(i.drift + gauss * i.volatility, 2 * i.volatility)

\* round(max(0.01, old_price * (1 + change_percent)), 4)
new_price(old_price, change) ==
    LET scaled == old_price * (ChangeScale + change)
    IN IF scaled < MinPrice * ChangeScale THEN MinPrice
       ELSE RoundDiv(scaled, ChangeScale)

update_market(m, draws) ==
    [c \in Instruments |->
        [current_price |-> new_price(m[c].current_price,
                                     change_percent(c, draws[c])),
         change_percent |-> change_percent(c, draws[c])]]

(***************************************************************************)
(* Files.  A file is missing, corrupt (yaml.safe_load raises), not a        *)
(* mapping (it parses to something that is not a dict) or holds a store.   *)
(***************************************************************************)
FileOf(d) == [state |-> "ok", data |-> d]
Corrupt == [state |-> "corrupt", data |-> 0]
NonDict == [state |-> "nondict", data |-> 0]
Missing == [state |-> "missing", data |-> 0]
EmptyStore == 0

\* the plugin after __init__ and initialize() on a sound, empty data file
InitPersist ==
    /\ pet_data = EmptyStore
    /\ disk = FileOf(EmptyStore)
    /\ backups = <<>>
    /\ dirty = FALSE
    /\ dirty_version = 0
    /\ save_pc = "sleep"
    /\ version_before = 0
    /\ data_copy = EmptyStore
    /\ writer_pc = "idle"
    /\ last_write = "none"
    /\ io_failed = FALSE
    /\ market_pc = "sleep"
    /\ market_ticks = 0
    /\ term_pc = "running"
    /\ ready = <<>>
    /\ market = InitMarket
    /\ outbox = <<>>

\* no command is in flight
InitNoCommands ==
    /\ pc = <<>>
    /\ cmd = <<>>
    /\ lockHolder = <<>>

InitRest ==
    /\ InitPersist
    /\ load_pc = "done"
    /\ InitNoCommands

InitLedger ==
    /\ accounts = [u \in Users |-> NewAccount(0)]
    /\ debt_queue = <<>>
    /\ draining = <<>>
    /\ now = 0
    /\ steps = 0
    /\ last = Result("init", NoUser, 0, "ok")
    /\ pre = <<>>
    /\ hist = <<>>
    /\ InitRest

NextLedger ==
    \/ \E u \in Users, a \in LoanAmounts : TakeLoan(u, a)
    \/ \E u \in Users, a \in RepayAmounts : RepayLoan(u, a)
    \/ \E u \in Users : BankInfo(u)
    \/ \E u \in Users, ok \in BOOLEAN : Escape(u, ok)
    \/ \E u \in Users, t \in Users, a \in TransferAmounts : Transfer(u, t, a)
    \/ \E u \in Users, t \in Users, v \in ValueIncreases : PurchasePet(u, t, v)
    \/ DrainStart
    \/ \E ok \in BOOLEAN : ProcessTask(ok)
    \/ \E d \in TickSteps : Tick(d)

vars == <<accounts, debt_queue, draining, now, steps, last, pre, hist,
          saveVars, loadVars, lockVars, envVars>>

Init == InitLedger
Next == NextLedger
Spec == Init /\ [][Next]_vars

\* C1: every account with loan_amount = 0 has loan_principal = 0 and is
\* not frozen, in every reachable state of the ledger.
C1_NoDebtMeansNoPrincipal ==
    \A u \in Users :
        accounts[u].loan_amount = 0 =>
            /\ accounts[u].loan_principal = 0
            /\ ~accounts[u].loan_interest_frozen

(***************************************************************************)
(* SpecLiq: _check_and_liquidate on drawn account states.  User 1 is the   *)
(* debtor, users 2 and 3 may be its pets; a loan command (bank_info) runs  *)
(* accrual and the liquidation check on it.                                *)
(***************************************************************************)
LiqUsers == {1, 2, 3}
LiqCoins == {0, 100, 500, 1000, 1500, 3500}
LiqBank == {0, 300, 900}
\* <<loan_amount, loan_principal>>
LiqDebts == {<<0, 0>>, <<1000, 1000>>, <<1999, 1000>>, <<2000, 1000>>,
             <<200, 100>>}
LiqPets == {<<>>, <<2>>, <<2, 3>>, <<3, 2>>}
LiqPetValues == {100, 1500}
LiqTransfers == {<<>>, <<[target |-> 2, amount |-> 100]>>}

Debtor(coins, bank, debt, frozen, pets, transfers) ==
    [NewAccount(0) EXCEPT !.coins = coins, !.bank = bank,
                          !.loan_amount = debt[1], !.loan_principal = debt[2],
                          !.loan_interest_frozen = frozen /\ debt[1] > 0,
                          !.pets = pets,
                          !.loan_transfers =
                              IF debt[1] > 0 THEN transfers ELSE <<>>]

PetOf(pets, u, value) ==
    [NewAccount(0) EXCEPT !.value = value,
                          !.master = IF InSeq(u, pets) THEN 1 ELSE NoUser]

InitLiq ==
    /\ \E coins \in LiqCoins, bank \in LiqBank, debt \in LiqDebts,
          frozen \in BOOLEAN, pets \in LiqPets, v \in LiqPetValues,
          transfers \in LiqTransfers :
          accounts = [u \in LiqUsers |->
                        IF u = 1
                        THEN Debtor(coins, bank, debt, frozen, pets, transfers)
                        ELSE PetOf(pets, u, IF u = 2 THEN v ELSE DEFAULT_VALUE)]
    /\ debt_queue = <<>>
    /\ draining = <<>>
    /\ now = 0
    /\ steps = 0
    /\ last = Result("init", NoUser, 0, "ok")
    /\ pre = accounts
    /\ hist = <<>>
    /\ InitRest

\* bank_info of the debtor, remembering the store it started from
LiqBankInfo(u) ==
    /\ steps < MaxLiqCmds
    /\ steps' = steps + 1
    /\ pre' = accounts
    /\ outbox' = AccrueAndCheck(accounts, u, now).notices
    /\ LET r == AccrueAndCheck(accounts, u, now)
       IN /\ accounts' = r.accts
          /\ debt_queue' = debt_queue \o r.tasks
          /\ last' = Result("bank_info", u, 0,
                            IF r.ran THEN "liquidated" ELSE "ok")
    /\ UNCHANGED <<draining, now, hist, restVars>>

LiqTick ==
    /\ steps = 0
    /\ Quiet
    /\ now + SECONDS_PER_HOUR <= MaxNow
    /\ now' = now + SECONDS_PER_HOUR
    /\ UNCHANGED <<accounts, debt_queue, draining, steps, last, pre, hist,
                   restVars>>

NextLiq ==
    \/ LiqBankInfo(1)
    \/ LiqTick

SpecLiq == InitLiq /\ [][NextLiq]_vars

\* the debtor as liquidation found it: the record after the accrual step of
\* the same command
BeforeLiquidation == update_loan_interest(pre[1], now).acct

Liquidated == last.op = "bank_info" /\ last.res = "liquidated"

\* the scenario of C4: principal 1000, debt at the cap 2000, 500 in cash,
\* 300 in the bank, no pets
C4_Scenario ==
    /\ Liquidated
    /\ BeforeLiquidation.loan_principal = 1000
    /\ BeforeLiquidation.loan_amount = 2000
    /\ BeforeLiquidation.coins = 500
    /\ BeforeLiquidation.bank = 300
    /\ BeforeLiquidation.pets = <<>>

\* C4 as stated: the scenario seizes cash and bank in full (800), leaves a
\* debt of 1200, freezes the account and tops cash up to the floor.
C4_Original ==
    C4_Scenario =>
        /\ accounts[1].bank = 0
        /\ accounts[1].loan_amount = 1200
        /\ accounts[1].loan_interest_frozen
        /\ accounts[1].coins = INITIAL_COINS

\* C4 amended: in the scenario liquidation triggers; the 500 in cash stay
\* (they do not exceed the safety floor of 1000), the bank balance of 300 is
\* seized in full, the remaining debt is 1700, the account is frozen, the
\* principal stays 1000 and no top-up is paid (500 is above the floor 150).
C4_Amended ==
    C4_Scenario =>
        /\ accounts[1].coins = 500
        /\ accounts[1].bank = 0
        /\ accounts[1].loan_amount = 1700
        /\ accounts[1].loan_principal = 1000
        /\ accounts[1].loan_interest_frozen

C4_Witness == C4_Scenario /\ accounts[1].loan_amount = 1700

\* C5: whenever liquidation ran, the debt did not grow and the debtor's
\* cash is at least the subsistence floor.
C5_LiquidationMonotonic ==
    Liquidated =>
        /\ accounts[1].loan_amount <= BeforeLiquidation.loan_amount
        /\ accounts[1].coins >= INITIAL_COINS

\* a liquidation that sold pets, left debt and paid the welfare top-up
C5_Witness ==
    /\ Liquidated
    /\ BeforeLiquidation.coins < INITIAL_COINS
    /\ accounts[1].coins = INITIAL_COINS
    /\ Len(accounts[1].pets) < Len(BeforeLiquidation.pets)
    /\ accounts[1].loan_amount > 0
    /\ accounts[1].loan_amount < BeforeLiquidation.loan_amount

(***************************************************************************)
(* SpecAccrual: one indebted account; time passes in half hours and loan   *)
(* commands call _update_loan_interest.  hist keeps the last two calls.    *)
(***************************************************************************)
AccrualTicks == {1800, 3600}
\* <<loan_amount, loan_principal>> of the account when the run starts
AccrualDebts == {<<100, 100>>, <<1000, 1000>>, <<150, 100>>, <<1000, 0>>,
                 <<0, 0>>}

Call(a, t) ==
    [t |-> t,
     added |-> update_loan_interest(a, t).added,
     loan_before |-> a.loan_amount,
     loan_after |-> update_loan_interest(a, t).acct.loan_amount,
     mark_before |-> a.last_loan_interest_time,
     mark_after |-> update_loan_interest(a, t).acct.last_loan_interest_time,
     frozen |-> a.loan_interest_frozen]

Last2(h) == IF Len(h) > 2 THEN SubSeq(h, Len(h) - 1, Len(h)) ELSE h

InitAccrual ==
    /\ \E debt \in AccrualDebts, frozen \in BOOLEAN :
          accounts = [u \in {1} |->
                        Debtor(INITIAL_COINS, 0, debt, frozen, <<>>, <<>>)]
    /\ debt_queue = <<>>
    /\ draining = <<>>
    /\ now = 0
    /\ steps = 0
    /\ last = Result("init", NoUser, 0, "ok")
    /\ pre = <<>>
    /\ hist = <<>>
    /\ InitRest

\* the accrual step of a loan command of user u at the current time
AccrueCall(u) ==
    /\ Quiet
    /\ accounts' = [accounts EXCEPT
                      ![u] = update_loan_interest(accounts[u], now).acct]
    /\ hist' = Last2(Append(hist, Call(accounts[u], now)))
    /\ last' = Result("accrue", u, 0, "ok")
    /\ UNCHANGED <<debt_queue, draining, now, steps, pre, restVars>>

AccrualTick(d) ==
    /\ now + d <= MaxNowAccrual
    /\ Quiet
    /\ now' = now + d
    /\ last' = Result("tick", NoUser, d, "ok")
    /\ UNCHANGED <<accounts, debt_queue, draining, steps, pre, hist, restVars>>

NextAccrual ==
    \/ AccrueCall(1)
    \/ \E d \in AccrualTicks : AccrualTick(d)

SpecAccrual == InitAccrual /\ [][NextAccrual]_vars

\* two consecutive calls on a non-frozen account in debt, less than an
\* hour apart
TwoCallsWithinHour ==
    /\ Len(hist) = 2
    /\ hist[2].t - hist[1].t < SECONDS_PER_HOUR
    /\ hist[1].loan_before > 0 /\ ~hist[1].frozen
    /\ hist[2].loan_before > 0 /\ ~hist[2].frozen

WatermarkMonotonic ==
    \A i \in 1..Len(hist) : hist[i].mark_after >= hist[i].mark_before

idleLedger == <<accounts, debt_queue, draining, now, steps, pre, hist,
                envVars>>

\* _save_user_data of any command: the store changes, _mark_dirty
SaveUserData ==
    /\ term_pc # "returned"
    /\ pet_data < MaxMutations
    /\ pet_data' = pet_data + 1
    /\ dirty' = TRUE
    /\ dirty_version' = dirty_version + 1
    /\ last' = Result("save_user_data", NoUser, 0, "ok")
    /\ UNCHANGED <<disk, backups, save_pc, version_before, data_copy,
                   writer_pc, last_write, io_failed, market_pc, market_ticks,
                   term_pc, ready, idleLedger, loadVars, lockVars>>

\* mutant: the flag is cleared whatever happened during the write
DirtyAfterSave_Always(d, version, before) == FALSE

\* _auto_save_loop after the write: the flag is cleared only if the version
\* is the one recorded before
DirtyAfterSave(d, version, before) == IF version = before THEN FALSE ELSE d

\* _auto_save_loop wakes from sleep(60): _process_debt_queue (which saves
\* the accounts it recovered from, if any), then, if dirty, records the
\* version and _save_data_async copies the store and submits the write
AutoSaveWake(recovered) ==
    /\ save_pc = "sleep"
    /\ term_pc = "running"
    /\ recovered => pet_data < MaxMutations
    /\ LET store == IF recovered THEN pet_data + 1 ELSE pet_data
           d == dirty \/ recovered
           v == IF recovered THEN dirty_version + 1 ELSE dirty_version
       IN /\ pet_data' = store
          /\ dirty' = d
          /\ dirty_version' = v
          /\ IF d
             THEN /\ version_before' = v
                  /\ data_copy' = store
                  /\ writer_pc' = "queued"
                  /\ save_pc' = "writing"
                  /\ last_write' = "none"
                  /\ last' = Result("autosave", NoUser, 0, "writing")
             ELSE /\ UNCHANGED <<version_before, data_copy, writer_pc,
                                 save_pc, last_write>>
                  /\ last' = Result("autosave", NoUser, 0, "clean")
    /\ UNCHANGED <<disk, backups, io_failed, market_pc, market_ticks, term_pc,
                   ready, idleLedger, loadVars, lockVars>>

\* the worker thread starts _write_data_file: open(DATA_FILE, "w")
\* truncates the file, or raises (caught and logged by _write_data_file)
WriterOpen(ok) ==
    /\ writer_pc = "queued"
    /\ IF ok
       THEN /\ disk' = NonDict
            /\ writer_pc' = "open"
            /\ UNCHANGED <<last_write, io_failed>>
       ELSE /\ writer_pc' = "finished"
            /\ last_write' = "failed"
            /\ io_failed' = TRUE
            /\ UNCHANGED disk
    /\ last' = Result("writer_open", NoUser, 0, IF ok THEN "ok" ELSE "failed")
    /\ UNCHANGED <<pet_data, backups, dirty, dirty_version, save_pc,
                   version_before, data_copy, market_pc, market_ticks,
                   term_pc, ready, idleLedger, loadVars, lockVars>>

\* what the file holds after `mine` was written to it while another writer
\* wrote `other` to it: two different texts may interleave
Interleaved(mine, other) ==
    IF mine = other THEN {FileOf(mine)} ELSE {FileOf(mine), Corrupt}

\* the worker thread dumps the copy and returns.  If terminate's _save_data
\* wrote the same file meanwhile, the two writes interleave.
WriterDump(ok) ==
    /\ writer_pc = "open"
    /\ writer_pc' = "finished"
    /\ IF ok
       THEN /\ disk' \in IF term_pc = "returned"
                         THEN Interleaved(data_copy, pet_data)
                         ELSE {FileOf(data_copy)}
            /\ last_write' = "ok"
            /\ UNCHANGED io_failed
       ELSE /\ disk' = Corrupt
            /\ last_write' = "failed"
            /\ io_failed' = TRUE
    /\ last' = Result("writer_dump", NoUser, 0, IF ok THEN "ok" ELSE "failed")
    /\ UNCHANGED <<pet_data, backups, dirty, dirty_version, save_pc,
                   version_before, data_copy, market_pc, market_ticks,
                   term_pc, ready, idleLedger, loadVars, lockVars>>

\* _auto_save_loop resumes after `await self._save_data_async()`
AutoSaveResume ==
    /\ save_pc = "writing"
    /\ writer_pc = "finished"
    /\ term_pc = "running"
    /\ dirty' = DirtyAfterSave(dirty, dirty_version, version_before)
    /\ save_pc' = "sleep"
    /\ writer_pc' = "idle"
    /\ last' = Result("autosave_resume", NoUser, 0,
                      IF dirty' THEN "kept" ELSE "cleared")
    /\ UNCHANGED <<pet_data, disk, backups, dirty_version, version_before,
                   data_copy, last_write, io_failed, market_pc, market_ticks,
                   term_pc, ready, idleLedger, loadVars, lockVars>>

\* _market_update_loop wakes from sleep(1800): update_market, or an
\* exception that sends it to sleep(60)
MarketTick(ok) ==
    /\ market_pc = "sleep"
    /\ term_pc = "running"
    /\ market_ticks < MaxMarketTicks
    /\ IF ok
       THEN /\ market_ticks' = market_ticks + 1
            /\ \E draws \in [Instruments -> GaussDraws] :
                  market' = update_market(market, draws)
            /\ UNCHANGED market_pc
       ELSE market_pc' = "sleep60" /\ UNCHANGED <<market_ticks, market>>
    /\ last' = Result("market", NoUser, 0, IF ok THEN "ok" ELSE "failed")
    /\ UNCHANGED <<pet_data, disk, backups, dirty, dirty_version, save_pc,
                   version_before, data_copy, writer_pc, last_write,
                   io_failed, term_pc, ready, accounts, debt_queue,
                   draining, now, steps, pre, hist, outbox, loadVars,
                   lockVars>>

MarketRetry ==
    /\ market_pc = "sleep60"
    /\ term_pc = "running"
    /\ market_pc' = "sleep"
    /\ last' = Result("market", NoUser, 0, "retry")
    /\ UNCHANGED <<pet_data, disk, backups, dirty, dirty_version, save_pc,
                   version_before, data_copy, writer_pc, last_write,
                   io_failed, market_ticks, term_pc, ready, idleLedger,
                   loadVars, lockVars>>

\* terminate up to `await self._save_task`: both tasks are cancelled, which
\* queues their wake-ups in this order
Terminate ==
    /\ term_pc = "running"
    /\ term_pc' = "await_save"
    /\ ready' = <<"save", "market">>
    /\ last' = Result("terminate", NoUser, 0, "cancel")
    /\ UNCHANGED <<pet_data, disk, backups, dirty, dirty_version, save_pc,
                   version_before, data_copy, writer_pc, last_write,
                   io_failed, market_pc, market_ticks, idleLedger, loadVars,
                   lockVars>>

\* _auto_save_loop receives CancelledError at its await and re-raises; a
\* write still queued is cancelled with it, a write already running in the
\* worker thread is not.  terminate, which awaits this task, is woken.
AutoSaveCancelled ==
    /\ ready # <<>> /\ Head(ready) = "save"
    /\ save_pc' = "done"
    /\ writer_pc' = IF writer_pc = "queued" THEN "idle" ELSE writer_pc
    /\ ready' = Append(Tail(ready), "terminate")
    /\ last' = Result("autosave", NoUser, 0, "cancelled")
    /\ UNCHANGED <<pet_data, disk, backups, dirty, dirty_version,
                   version_before, data_copy, last_write, io_failed,
                   market_pc, market_ticks, term_pc, idleLedger, loadVars,
                   lockVars>>

\* _market_update_loop receives CancelledError and leaves its loop
MarketCancelled ==
    /\ ready # <<>> /\ Head(ready) = "market"
    /\ market_pc' = "done"
    /\ ready' = Tail(ready)
    /\ last' = Result("market", NoUser, 0, "cancelled")
    /\ UNCHANGED <<pet_data, disk, backups, dirty, dirty_version, save_pc,
                   version_before, data_copy, writer_pc, last_write,
                   io_failed, market_ticks, term_pc, idleLedger, loadVars,
                   lockVars>>

\* _save_data: back up the file if it exists, then write the store; an
\* exception is caught and logged
BackedUp(files, file) ==
    IF file.state = "missing" THEN files ELSE Append(files, file)

\* terminate resumes with the CancelledError of the autosave task (so the
\* market task is not awaited), flushes if dirty, and returns
TermFlush(ok) ==
    /\ ready # <<>> /\ Head(ready) = "terminate"
    /\ ready' = Tail(ready)
    /\ term_pc' = "returned"
    /\ ~dirty => ok
    /\ IF ~dirty
       THEN UNCHANGED <<disk, backups, io_failed>>
       ELSE IF ok
       THEN /\ backups' = BackedUp(backups, disk)
            /\ disk' \in IF writer_pc = "open"
                         THEN Interleaved(pet_data, data_copy)
                         ELSE {FileOf(pet_data)}
            /\ UNCHANGED io_failed
       ELSE /\ backups' \in {backups, BackedUp(backups, disk)}
            /\ disk' \in {disk, Corrupt}
            /\ io_failed' = TRUE
    /\ last' = Result("terminate", NoUser, 0,
                      IF dirty THEN "flushed" ELSE "clean")
    /\ UNCHANGED <<pet_data, dirty, dirty_version, save_pc, version_before,
                   data_copy, writer_pc, last_write, market_pc, market_ticks,
                   idleLedger, loadVars, lockVars>>

InitSave == InitLedger

NextSave ==
    \/ SaveUserData
    \/ \E recovered \in BOOLEAN : AutoSaveWake(recovered)
    \/ \E ok \in BOOLEAN : WriterOpen(ok)
    \/ \E ok \in BOOLEAN : WriterDump(ok)
    \/ AutoSaveResume
    \/ \E ok \in BOOLEAN : MarketTick(ok)
    \/ MarketRetry
    \/ Terminate
    \/ AutoSaveCancelled
    \/ MarketCancelled
    \/ \E ok \in BOOLEAN : TermFlush(ok)

SpecSave == InitSave /\ [][NextSave]_vars

\* the timer of sleep(60) fires, the worker thread runs, and the loop is
\* resumed when its write returns
SpecSaveFair ==
    /\ SpecSave
    /\ WF_vars(AutoSaveWake(FALSE))
    /\ WF_vars(\E ok \in BOOLEAN : WriterOpen(ok))
    /\ WF_vars(\E ok \in BOOLEAN : WriterDump(ok))
    /\ WF_vars(AutoSaveResume)

\* C7: the dirty flag is cleared only by the autosave loop after a write
\* during which the version did not change; a mutation while the write is
\* in flight leaves the flag set; whenever the flag is clear the last copy
\* handed to the writer is the current store; and a store that is newer
\* than the last copy is copied by a later cycle (unless terminate runs).
C7_ClearOnlyIfUnchanged ==
    /\ [][(dirty /\ ~dirty') =>
            (save_pc = "writing" /\ dirty_version = version_before)]_vars
    /\ [][(save_pc = "writing" /\ save_pc' = "sleep"
            /\ dirty_version # version_before) => dirty']_vars
    /\ [](~dirty => data_copy = pet_data)
    /\ \A m \in 1..MaxMutations :
          (pet_data = m /\ data_copy < m)
              ~> (data_copy >= m \/ term_pc # "running")

\* a write returned after the store had changed again, and the flag stayed
C7_Witness ==
    /\ last.op = "autosave_resume"
    /\ last.res = "kept"
    /\ dirty_version # version_before
    /\ data_copy < pet_data

\* C8 as stated: after an autosave cycle whose write raised, the dirty flag
\* is still set.
C8_FailedWriteKeepsDirty ==
    (last.op = "autosave_resume" /\ last_write = "failed") => dirty

\* C10 as stated: when terminate has returned both loops have finished and,
\* once the worker thread is quiet and no write raised, the file holds the
\* store.
C10_TerminateFlushes ==
    term_pc = "returned" =>
        /\ save_pc = "done"
        /\ market_pc = "done"
        /\ (writer_pc \in {"idle", "finished"} /\ ~io_failed) =>
              disk = FileOf(pet_data)

(***************************************************************************)
(* SpecLoad: construction of the plugin on an arbitrary data directory:    *)
(* _init_env, then _load_data (which may call _try_restore_backup).        *)
(***************************************************************************)
\* what a data or backup file may hold
FileContents ==
    {Corrupt, NonDict} \cup {FileOf(d) : d \in 1..MaxStore}

BackupDirs ==
    UNION {[1..n -> FileContents] : n \in 0..MaxBackups}

\* `data if isinstance(data, dict) else {}` for a file that parses
ParsedStore(file) == IF file.state = "ok" THEN file.data ELSE EmptyStore

\* open + yaml.safe_load raise
LoadRaises(file) == file.state \in {"missing", "corrupt"}

\* sorted(..., key=st_mtime, reverse=True)[0]
latest_backup(files) == files[Len(files)]

\* _try_restore_backup: whether it restored, and the store it leaves
try_restore_backup(files, store) ==
    IF files = <<>> THEN [restored |-> FALSE, store |-> store]
    ELSE IF LoadRaises(latest_backup(files))
    THEN [restored |-> FALSE, store |-> store]
    ELSE [restored |-> TRUE, store |-> ParsedStore(latest_backup(files))]

\* _load_data: the store after loading
load_data(file, files, store) ==
    IF ~LoadRaises(file) THEN ParsedStore(file)
    ELSE IF try_restore_backup(files, store).restored
    THEN try_restore_backup(files, store).store
    ELSE EmptyStore

InitLoad ==
    /\ accounts = [u \in Users |-> NewAccount(0)]
    /\ debt_queue = <<>>
    /\ draining = <<>>
    /\ now = 0
    /\ steps = 0
    /\ last = Result("init", NoUser, 0, "ok")
    /\ hist = <<>>
    /\ disk \in FileContents \cup {Missing}
    /\ backups \in BackupDirs
    /\ pre = disk
    /\ pet_data = EmptyStore
    /\ dirty = FALSE
    /\ dirty_version = 0
    /\ save_pc = "sleep"
    /\ version_before = 0
    /\ data_copy = EmptyStore
    /\ writer_pc = "idle"
    /\ last_write = "none"
    /\ io_failed = FALSE
    /\ market_pc = "sleep"
    /\ market_ticks = 0
    /\ term_pc = "running"
    /\ ready = <<>>
    /\ market = InitMarket
    /\ outbox = <<>>
    /\ load_pc = "start"
    /\ InitNoCommands

\* _init_env: a missing data file is created holding the empty mapping
InitEnv ==
    /\ load_pc = "start"
    /\ load_pc' = "env"
    /\ disk' = IF disk.state = "missing" THEN FileOf(EmptyStore) ELSE disk
    /\ last' = Result("init_env", NoUser, 0,
                      IF disk.state = "missing" THEN "created" ELSE "exists")
    /\ UNCHANGED <<pet_data, backups, dirty, dirty_version, save_pc,
                   version_before, data_copy, writer_pc, last_write,
                   io_failed, market_pc, market_ticks, term_pc, ready,
                   idleLedger, lockVars>>

LoadData ==
    /\ load_pc = "env"
    /\ load_pc' = "done"
    /\ pet_data' = load_data(disk, backups, pet_data)
    /\ last' = Result("load_data", NoUser, 0,
                      IF ~LoadRaises(disk) THEN "loaded"
                      ELSE IF try_restore_backup(backups, pet_data).restored
                      THEN "restored" ELSE "empty")
    /\ UNCHANGED <<disk, backups, dirty, dirty_version, save_pc,
                   version_before, data_copy, writer_pc, last_write,
                   io_failed, market_pc, market_ticks, term_pc, ready,
                   idleLedger, lockVars>>

NextLoad ==
    \/ InitEnv
    \/ LoadData

SpecLoad == InitLoad /\ [][NextLoad]_vars

\* C9 as stated: after start-up on a missing or corrupt data file the store
\* is the one held by the most recent backup whenever that backup holds a
\* store, and it is empty if there is no backup.  (pre is the data file as
\* start-up found it.)
C9_RestoreFromNewestBackup ==
    (load_pc = "done" /\ pre.state \in {"missing", "corrupt"}) =>
        IF backups = <<>>
        THEN pet_data = EmptyStore
        ELSE latest_backup(backups).state = "ok" =>
                pet_data = latest_backup(backups).data

(***************************************************************************)
(* SpecLock: commands as concurrent tasks.  Every command acquires the     *)
(* entity locks its handler names (session_lock_manager.acquire_lock, a    *)
(* mutex per key that is not re-entrant), runs its body, and releases      *)
(* them, inner lock first.                                                 *)
(***************************************************************************)
Procs == {"a", "b"}
LockUsers == {1, 2, 3}
NoProc == "none"
TwoLockOps == {"transfer", "purchase_pet", "train_pet", "clawback"}
OneLockOps == {"ransom", "work"}
\* random draws of train_pet and work
TrainIncrease == 15
TrainDecrease == 10
WorkIncome == 20
WorkLoss == 10
\* train_cost_rate and work_tax_rate in percent
TrainCostPct == 10
WorkTaxPct == 30

\* mutant: the locks in the order sender, target
lock_ids_Unsorted(user_id, target_id) == <<user_id, target_id>>

\* sorted([user_id, target_id])
lock_ids(user_id, target_id) ==
    <<Min(user_id, target_id), Max(user_id, target_id)>>

\* the locks a command's handler acquires, outermost first
Locks(c) ==
    IF c.op \in TwoLockOps THEN lock_ids(c.user, c.target) ELSE <<c.user>>

\* the commands a task may be: the handlers reject target = sender before
\* locking, except train_pet; clawback tasks stem from transfers
Commands ==
    {c \in [op : {"transfer", "purchase_pet", "clawback"},
            user : LockUsers, target : LockUsers] : c.user # c.target}
    \cup {[op |-> "train_pet", user |-> u, target |-> t] :
            u \in LockUsers, t \in LockUsers}
    \cup {[op |-> o, user |-> u, target |-> NoUser] :
            o \in OneLockOps, u \in LockUsers}

Trained(accts, u, target, success) ==
    LET pet == accts[target]
        cost == (pet.value * TrainCostPct) \div 100
    IN IF ~InSeq(target, accts[u].pets) \/ accts[u].coins < cost THEN accts
       ELSE IF success
       THEN [accts EXCEPT ![u].coins = @ - cost,
                          ![target].value =
                              pet.value + TrainIncrease + pet.value \div 10]
       ELSE [[accts EXCEPT ![u].coins = @ - cost]
                EXCEPT ![target].value = Max(100, pet.value - TrainDecrease)]

Ransomed(accts, u) ==
    LET user == accts[u]
        master_id == user.master
    IN IF master_id = NoUser \/ user.coins < user.value THEN accts
       ELSE [accts EXCEPT ![u].coins = @ - user.value,
                          ![u].master = NoUser,
                          ![master_id].coins = @ + user.value,
                          ![master_id].pets = SeqRemove(@, u)]

\* work: every pet earns (success) or loses value (failure); a sender
\* without pets earns alone; the sender's master takes the tax
RECURSIVE PetIncome(_, _)
PetIncome(accts, pets) ==
    IF pets = <<>> THEN 0
    ELSE WorkIncome + accts[Head(pets)].value \div 10
         + PetIncome(accts, Tail(pets))

Worked(accts, u, success) ==
    LET user == accts[u]
        total == IF user.pets = <<>> THEN WorkIncome
                 ELSE IF success THEN PetIncome(accts, user.pets) ELSE 0
        a1 == IF user.pets # <<>> /\ ~success
              THEN [x \in DOMAIN accts |->
                      IF InSeq(x, user.pets)
                      THEN [accts[x] EXCEPT !.value = Max(100, @ - WorkLoss)]
                      ELSE accts[x]]
              ELSE accts
        tax == (total * WorkTaxPct) \div 100
    IN IF user.master # NoUser /\ total > 0
       THEN [a1 EXCEPT ![user.master].coins = @ + tax,
                       ![u].coins = @ + (total - tax)]
       ELSE [a1 EXCEPT ![u].coins = @ + total]

\* the body of a command, run with its locks held
Effect(accts, c, success) ==
    CASE c.op = "transfer" ->
            IF accts[c.user].coins >=
                  transfer_min_amount + TransferFee(transfer_min_amount)
            THEN Transferred(accts, c.user, c.target, transfer_min_amount)
            ELSE accts
      [] c.op = "purchase_pet" ->
            IF /\ accts[c.user].master # c.target
               /\ ~InSeq(c.target, accts[c.user].pets)
               /\ accts[c.target].master # c.user
               /\ accts[c.user].coins >= accts[c.target].value
            THEN Purchased(accts, c.user, c.target, 10)
            ELSE accts
      [] c.op = "train_pet" -> Trained(accts, c.user, c.target, success)
      [] c.op = "clawback" ->
            Clawback(accts, [debtor_id |-> c.user, target_id |-> c.target,
                             amount |-> transfer_min_amount])
      [] c.op = "ransom" -> Ransomed(accts, c.user)
      [] c.op = "work" -> Worked(accts, c.user, success)

\* user 2 is the pet of user 1; user 3 is a frozen debtor
LockAccounts ==
    [u \in LockUsers |->
        [NewAccount(0) EXCEPT
            !.coins = 1000,
            !.pets = IF u = 1 THEN <<2>> ELSE <<>>,
            !.master = IF u = 2 THEN 1 ELSE NoUser,
            !.loan_amount = IF u = 3 THEN 200 ELSE 0,
            !.loan_principal = IF u = 3 THEN 100 ELSE 0,
            !.loan_interest_frozen = (u = 3)]]

InitLock ==
    /\ accounts = LockAccounts
    /\ debt_queue = <<>>
    /\ draining = <<>>
    /\ now = 0
    /\ steps = 0
    /\ last = Result("init", NoUser, 0, "ok")
    /\ pre = <<>>
    /\ hist = <<>>
    /\ InitPersist
    /\ load_pc = "done"
    /\ cmd \in [Procs -> Commands]
    /\ pc = [p \in Procs |-> "start"]
    /\ lockHolder = [u \in LockUsers |-> NoProc]

idleInLock == <<debt_queue, draining, now, steps, last, pre, hist,
                saveVars, loadVars, cmd, envVars>>

Acquire1(p) ==
    /\ pc[p] = "start"
    /\ lockHolder[Locks(cmd[p])[1]] = NoProc
    /\ lockHolder' = [lockHolder EXCEPT ![Locks(cmd[p])[1]] = p]
    /\ pc' = [pc EXCEPT ![p] = IF Len(Locks(cmd[p])) = 2 THEN "wait2"
                                ELSE "cs"]
    /\ UNCHANGED <<accounts, idleInLock>>

Acquire2(p) ==
    /\ pc[p] = "wait2"
    /\ lockHolder[Locks(cmd[p])[2]] = NoProc
    /\ lockHolder' = [lockHolder EXCEPT ![Locks(cmd[p])[2]] = p]
    /\ pc' = [pc EXCEPT ![p] = "cs"]
    /\ UNCHANGED <<accounts, idleInLock>>

Body(p, success) ==
    /\ pc[p] = "cs"
    /\ accounts' = Effect(accounts, cmd[p], success)
    /\ pc' = [pc EXCEPT ![p] = IF Len(Locks(cmd[p])) = 2 THEN "rel2"
                                ELSE "rel1"]
    /\ UNCHANGED <<lockHolder, idleInLock>>

Release2(p) ==
    /\ pc[p] = "rel2"
    /\ lockHolder' = [lockHolder EXCEPT ![Locks(cmd[p])[2]] = NoProc]
    /\ pc' = [pc EXCEPT ![p] = "rel1"]
    /\ UNCHANGED <<accounts, idleInLock>>

Release1(p) ==
    /\ pc[p] = "rel1"
    /\ lockHolder' = [lockHolder EXCEPT ![Locks(cmd[p])[1]] = NoProc]
    /\ pc' = [pc EXCEPT ![p] = "done"]
    /\ UNCHANGED <<accounts, idleInLock>>

TaskStep(p) ==
    \/ Acquire1(p)
    \/ Acquire2(p)
    \/ \E success \in BOOLEAN : Body(p, success)
    \/ Release2(p)
    \/ Release1(p)

NextLock == \E p \in Procs : TaskStep(p)

SpecLock == InitLock /\ [][NextLock]_vars

\* the event loop runs every task that can run
SpecLockFair == SpecLock /\ \A p \in Procs : WF_vars(TaskStep(p))

TwoEntities(c) == c.op \in TwoLockOps /\ c.user # c.target

\* C2: when every running command is a two-lock command on two different
\* entities, all of them acquire their locks and complete.
C2_NoDeadlock ==
    (\A p \in Procs : TwoEntities(cmd[p]))
        ~> (\A p \in Procs : pc[p] = "done")

\* a transfer 1 -> 2 and a transfer 2 -> 1 ran together and both took effect
C2_Witness ==
    /\ cmd["a"] = [op |-> "transfer", user |-> 1, target |-> 2]
    /\ cmd["b"] = [op |-> "transfer", user |-> 2, target |-> 1]
    /\ pc["a"] = "done" /\ pc["b"] = "done"
    /\ accounts[1].coins = LockAccounts[1].coins
                              - TransferFee(transfer_min_amount)
    /\ accounts[2].coins = LockAccounts[2].coins
                              - TransferFee(transfer_min_amount)

\* C3 as stated: a step that changes an account is taken by a command that
\* holds the lock of that account.
C3_MutationsHoldLocks ==
    [][\A u \in LockUsers :
          accounts'[u] # accounts[u] =>
              \E p \in Procs : /\ pc[p] = "cs" /\ pc'[p] # "cs"
                               /\ lockHolder[u] = p]_vars


(***************************************************************************)
(* SpecBank: the cash commands.  Deposit and withdrawal with the interest  *)
(* settlement they start with, robbery with its fine and jail, ransom,     *)
(* the shop items that move coins and the instruments, next to the ledger  *)
(* commands above.  rob_cooldown is configured as 0.                       *)
(***************************************************************************)
MaxBankSteps == 3
bank_initial_limit == 1000
\* bank_interest_rate in percent and bank_max_interest_time in hours
BankRatePct == 1
bank_max_interest_time == 24
rob_jail_hours == 24
ROB_TIMEOUT_SECONDS == 3600
PandoraJailHours == 4
PandoraJackpot == 20000
PandoraPrize == 4000
PandoraLossPct == 30
SmuggleSale == 8000
SmuggleFine == 2000
min_buy_amount == 100
ShareScale == 100

BankUsers == {1, 2}
BankScenarios == {"new", "rich", "debtor"}
DepositAmounts == {100, 200}
RobRates == {5, 20}
BuyAmounts == {100}
\* 0 stands for "all"
SellAmounts == {0, 60}
PandoraOutcomes == {"jackpot", "prize", "jail", "loss", "empty"}
SmuggleOutcomes == {"sold", "caught"}

ItemPrice(item) == IF item = "109" THEN 5000 ELSE 2000

Jailed(user, t) == user.jailed_until > t

get_bank_limit(level) ==
    (bank_initial_limit * Pow(12, level - 1)) \div Pow(10, level - 1)

calculate_compound_interest(principal, hours) ==
    (principal * Pow(100 + BankRatePct, hours)) \div Pow(100, hours)
        - principal

\* _settle_bank_interest at time t: the account afterwards
settle_bank_interest(user, t) ==
    LET hours == Min((t - user.last_interest_time) \div SECONDS_PER_HOUR,
                     bank_max_interest_time)
        interest == IF user.bank <= 0 \/ hours < 1 THEN 0
                    ELSE calculate_compound_interest(user.bank, hours)
    IN [user EXCEPT !.coins = IF interest > 0 THEN @ + interest ELSE @,
                    !.last_interest_time = t]

Deposit(u, amount) ==
    /\ Step
    /\ Quiet
    /\ amount > 0
    /\ LET user == settle_bank_interest(accounts[u], now)
       IN IF \/ user.coins < amount
             \/ user.bank + amount > get_bank_limit(user.bank_level)
          THEN /\ accounts' = [accounts EXCEPT ![u] = user]
               /\ last' = Result("deposit", u, amount, "rejected")
          ELSE /\ accounts' = [accounts EXCEPT
                                 ![u] = [user EXCEPT !.coins = @ - amount,
                                                     !.bank = @ + amount]]
               /\ last' = Result("deposit", u, amount, "ok")
    /\ UNCHANGED <<debt_queue, draining, now>>

Withdraw(u, amount) ==
    /\ Step
    /\ Quiet
    /\ amount > 0
    /\ LET user == settle_bank_interest(accounts[u], now)
       IN IF user.bank < amount
          THEN /\ accounts' = [accounts EXCEPT ![u] = user]
               /\ last' = Result("withdraw", u, amount, "rejected")
          ELSE /\ accounts' = [accounts EXCEPT
                                 ![u] = [user EXCEPT !.bank = @ - amount,
                                                     !.coins = @ + amount]]
               /\ last' = Result("withdraw", u, amount, "ok")
    /\ UNCHANGED <<debt_queue, draining, now>>

\* rob: the store afterwards and the outcome
RobFine(user) == (user.value * (3 + user.rob_fail_streak)) \div 2

Robbed(accts, u, target, success, rate, t) ==
    LET user == accts[u]
        amount == (accts[target].coins * rate) \div 100
    IN IF accts[target].inventory["102"] > 0
       THEN [accts |-> [accts EXCEPT ![target].inventory["102"] = @ - 1],
             res |-> "blocked"]
       ELSE IF user.rob_pending_penalty # <<>>
       THEN IF t - user.rob_pending_penalty[1].time > ROB_TIMEOUT_SECONDS
            THEN [accts |-> [accts EXCEPT
                               ![u].jailed_until =
                                   t + rob_jail_hours * SECONDS_PER_HOUR,
                               ![u].rob_pending_penalty = <<>>,
                               ![u].rob_fail_streak = 0],
                  res |-> "jailed"]
            ELSE [accts |-> accts, res |-> "rejected"]
       ELSE IF accts[target].coins = 0
       THEN [accts |-> accts, res |-> "rejected"]
       ELSE IF success
       THEN [accts |-> [accts EXCEPT ![target].coins = @ - amount,
                                     ![u].coins = @ + amount,
                                     ![u].rob_fail_streak = 0],
             res |-> "ok"]
       ELSE [accts |-> [accts EXCEPT
                          ![u].rob_pending_penalty =
                              <<[amount |-> RobFine(user), time |-> t]>>],
             res |-> "failed"]

Rob(u, target, success, rate) ==
    /\ Step
    /\ Quiet
    /\ target # u
    /\ accounts' = Robbed(accounts, u, target, success, rate, now).accts
    /\ last' = Result("rob", u, target,
                      Robbed(accounts, u, target, success, rate, now).res)
    /\ UNCHANGED <<debt_queue, draining, now>>

PayRobFine(u) ==
    /\ Step
    /\ Quiet
    /\ LET user == accounts[u]
       IN IF user.rob_pending_penalty = <<>>
          THEN /\ UNCHANGED accounts
               /\ last' = Result("pay_rob_fine", u, 0, "rejected")
          ELSE IF user.coins < user.rob_pending_penalty[1].amount
          THEN /\ UNCHANGED accounts
               /\ last' = Result("pay_rob_fine", u, 0, "rejected")
          ELSE /\ accounts' =
                     [accounts EXCEPT
                        ![u].coins = @ - user.rob_pending_penalty[1].amount,
                        ![u].rob_pending_penalty = <<>>,
                        ![u].rob_fail_streak = @ + 1]
               /\ last' = Result("pay_rob_fine", u, 0, "ok")
    /\ UNCHANGED <<debt_queue, draining, now>>

GoToJail(u) ==
    /\ Step
    /\ Quiet
    /\ accounts[u].rob_pending_penalty # <<>>
    /\ accounts' = [accounts EXCEPT
                      ![u].jailed_until =
                          now + rob_jail_hours * SECONDS_PER_HOUR,
                      ![u].rob_pending_penalty = <<>>,
                      ![u].rob_fail_streak = 0]
    /\ last' = Result("go_to_jail", u, 0, "ok")
    /\ UNCHANGED <<debt_queue, draining, now>>

Ransom(u) ==
    /\ Step
    /\ Quiet
    /\ accounts' = Ransomed(accounts, u)
    /\ last' = Result("ransom", u, 0,
                      IF Ransomed(accounts, u) = accounts THEN "rejected"
                      ELSE "ok")
    /\ UNCHANGED <<debt_queue, draining, now>>

BuyItem(u, item) ==
    /\ Step
    /\ Quiet
    /\ IF accounts[u].coins < ItemPrice(item)
       THEN /\ UNCHANGED accounts
            /\ last' = Result("buy_item", u, item, "rejected")
       ELSE /\ accounts' = [accounts EXCEPT
                              ![u].coins = @ - ItemPrice(item),
                              ![u].inventory[item] = @ + 1]
            /\ last' = Result("buy_item", u, item, "ok")
    /\ UNCHANGED <<debt_queue, draining, now>>

\* use_item of one Pandora's box or one lot of smuggled goods
ItemEffect(user, item, outcome, t) ==
    IF item = "108"
    THEN CASE outcome = "jackpot" ->
                [user EXCEPT !.coins = @ + PandoraJackpot]
           [] outcome = "prize" -> [user EXCEPT !.coins = @ + PandoraPrize]
           [] outcome = "jail" ->
                [user EXCEPT !.jailed_until =
                    Max(@, t) + PandoraJailHours * SECONDS_PER_HOUR]
           [] outcome = "loss" ->
                [user EXCEPT !.coins = @ - (@ * PandoraLossPct) \div 100]
           [] OTHER -> user
    ELSE IF outcome = "sold" THEN [user EXCEPT !.coins = @ + SmuggleSale]
    ELSE [user EXCEPT !.coins = Max(0, @ - SmuggleFine)]

UseItem(u, item, outcome) ==
    /\ Step
    /\ Quiet
    /\ item \in {"108", "109"}
    /\ outcome \in (IF item = "108" THEN PandoraOutcomes ELSE SmuggleOutcomes)
    /\ IF accounts[u].inventory[item] < 1
       THEN /\ UNCHANGED accounts
            /\ last' = Result("use_item", u, item, "rejected")
       ELSE /\ accounts' =
                 [accounts EXCEPT
                    ![u] = [ItemEffect(@, item, outcome, now)
                               EXCEPT !.inventory[item] = @ - 1]]
            /\ last' = Result("use_item", u, item, "ok")
    /\ UNCHANGED <<debt_queue, draining, now>>

\* buy_instrument: amount / current_price shares for `amount` coins
BuyShares(amount, price) == (amount * PriceScale * ShareScale) \div price

\* total_cost / shares, as a price
AvgPrice(total_cost, shares) ==
    (total_cost * PriceScale * ShareScale) \div shares

\* mutant: the average price is the price of the latest purchase
Bought_LastPrice(holding, amount, price) ==
    [shares |-> holding.shares + BuyShares(amount, price),
     total_cost |-> holding.total_cost + amount,
     avg_price |-> price]

\* the holding after a purchase of `amount` coins at `price`
Bought(holding, amount, price) ==
    LET shares == holding.shares + BuyShares(amount, price)
        total_cost == holding.total_cost + amount
    IN [shares |-> shares, total_cost |-> total_cost,
        avg_price |-> AvgPrice(total_cost, shares)]

BuyInstrument(u, code, amount) ==
    /\ Step
    /\ Quiet
    /\ amount >= min_buy_amount
    /\ IF accounts[u].coins < amount
       THEN /\ UNCHANGED accounts
            /\ last' = Result("buy_instrument", u, amount, "rejected")
       ELSE /\ accounts' =
                 [accounts EXCEPT
                    ![u].coins = @ - amount,
                    ![u].holdings[code] =
                        Bought(@, amount, market[code].current_price)]
            /\ last' = Result("buy_instrument", u, amount, "ok")
    /\ UNCHANGED <<debt_queue, draining, now>>

\* shares x current_price, in coins x PriceScale x ShareScale
HoldingValue(holding, price) == holding.shares * price

\* sell_instrument of sell_value coins' worth (0: all): the shares sold,
\* the coins paid out, the cost they carried and the profit reported
SellShares(holding, sell_value, price) ==
    IF sell_value = 0 THEN holding.shares ELSE BuyShares(sell_value, price)

\* mutant: a sale of everything pays one coin less than the value
Payout_Short(holding, sell_value, price) ==
    IF sell_value = 0
    THEN HoldingValue(holding, price) \div (PriceScale * ShareScale) - 1
    ELSE sell_value

Payout(holding, sell_value, price) ==
    IF sell_value = 0
    THEN HoldingValue(holding, price) \div (PriceScale * ShareScale)
    ELSE sell_value

CostBasis(holding, sell_shares) ==
    (holding.avg_price * sell_shares) \div (PriceScale * ShareScale)

SellProfit(holding, sell_value, price) ==
    Payout(holding, sell_value, price)
        - CostBasis(holding, SellShares(holding, sell_value, price))

Sold(user, code, sell_value, price) ==
    LET holding == user.holdings[code]
        sell_shares == SellShares(holding, sell_value, price)
        cost_basis == CostBasis(holding, sell_shares)
    IN [user EXCEPT
          !.coins = @ + Payout(holding, sell_value, price),
          !.holdings[code] =
              IF holding.shares - sell_shares = 0
              THEN NoHolding
              ELSE [@ EXCEPT !.shares = @ - sell_shares,
                             !.total_cost = @ - cost_basis]]

SellInstrument(u, code, sell_value) ==
    /\ Step
    /\ Quiet
    /\ LET holding == accounts[u].holdings[code]
           price == market[code].current_price
       IN IF \/ holding.shares = 0
             \/ sell_value * PriceScale * ShareScale
                   > HoldingValue(holding, price)
          THEN /\ UNCHANGED accounts
               /\ last' = Result("sell_instrument", u, sell_value, "rejected")
          ELSE /\ accounts' = [accounts EXCEPT
                                 ![u] = Sold(@, code, sell_value, price)]
               /\ last' = Result("sell_instrument", u, sell_value, "ok")
    /\ UNCHANGED <<debt_queue, draining, now>>

\* market_view after more than 1800 s: update_market
MarketView ==
    /\ steps < MaxBankSteps
    /\ steps' = steps + 1
    /\ Quiet
    /\ \E draws \in [Instruments -> GaussDraws] :
          market' = update_market(market, draws)
    /\ last' = Result("market_view", NoUser, 0, "ok")
    /\ UNCHANGED <<accounts, debt_queue, draining, now, pre, hist, saveVars,
                   loadVars, lockVars>>

\* the stores the commands start from: two new accounts; user 1 rich,
\* with savings, owning user 2; user 1 in debt after a loan of 100 that it
\* sent on to user 2, who has spent most of it
BankAccounts(scenario) ==
    [u \in BankUsers |->
        CASE scenario = "new" -> NewAccount(0)
          [] scenario = "rich" ->
                IF u = 1
                THEN [NewAccount(0) EXCEPT !.coins = 7000, !.bank = 900,
                                           !.pets = <<2>>]
                ELSE [NewAccount(0) EXCEPT !.master = 1]
          [] scenario = "debtor" ->
                IF u = 1
                THEN [NewAccount(0) EXCEPT
                        !.coins = 40, !.loan_amount = 100,
                        !.loan_principal = 100,
                        !.loan_transfers =
                            <<[target |-> 2, amount |-> 100]>>]
                ELSE [NewAccount(0) EXCEPT !.coins = 60]]

InitBank ==
    /\ \E scenario \in BankScenarios : accounts = BankAccounts(scenario)
    /\ debt_queue = <<>>
    /\ draining = <<>>
    /\ now = 0
    /\ steps = 0
    /\ last = Result("init", NoUser, 0, "ok")
    /\ pre = <<>>
    /\ hist = <<>>
    /\ InitRest

\* a command of user u: the handlers turn a jailed sender away before
\* they take a lock
Free(u) == steps < MaxBankSteps /\ ~Jailed(accounts[u], now)

NextBank ==
    \/ \E u \in BankUsers, a \in LoanAmounts : Free(u) /\ TakeLoan(u, a)
    \/ \E u \in BankUsers, a \in RepayAmounts : Free(u) /\ RepayLoan(u, a)
    \/ \E u \in BankUsers : steps < MaxBankSteps /\ BankInfo(u)
    \/ \E u \in BankUsers, t \in BankUsers, a \in TransferAmounts :
          Free(u) /\ Free(t) /\ Transfer(u, t, a)
    \/ \E u \in BankUsers, t \in BankUsers, v \in ValueIncreases :
          Free(u) /\ PurchasePet(u, t, v)
    \/ \E u \in BankUsers, a \in DepositAmounts : Free(u) /\ Deposit(u, a)
    \/ \E u \in BankUsers, a \in DepositAmounts : Free(u) /\ Withdraw(u, a)
    \/ \E u \in BankUsers, t \in BankUsers, ok \in BOOLEAN, r \in RobRates :
          Free(u) /\ Rob(u, t, ok, r)
    \/ \E u \in BankUsers : steps < MaxBankSteps /\ PayRobFine(u)
    \/ \E u \in BankUsers : steps < MaxBankSteps /\ GoToJail(u)
    \/ \E u \in BankUsers : Free(u) /\ Ransom(u)
    \/ \E u \in BankUsers, i \in Items : Free(u) /\ BuyItem(u, i)
    \/ \E u \in BankUsers, i \in Items,
          o \in PandoraOutcomes \cup SmuggleOutcomes :
          steps < MaxBankSteps /\ UseItem(u, i, o)
    \/ \E u \in BankUsers, c \in Instruments, a \in BuyAmounts :
          Free(u) /\ BuyInstrument(u, c, a)
    \/ \E u \in BankUsers, c \in Instruments, a \in SellAmounts :
          steps < MaxBankSteps /\ SellInstrument(u, c, a)
    \/ MarketView
    \/ steps < MaxBankSteps /\ DrainStart
    \/ \E ok \in BOOLEAN : steps < MaxBankSteps /\ ProcessTask(ok)
    \/ \E d \in TickSteps : Tick(d)

SpecBank == InitBank /\ [][NextBank]_vars

\* C11: no account ever has negative coins, bank, loan_amount or
\* loan_principal, whatever commands, liquidations and clawbacks ran.
C11_BalancesNonNegative ==
    \A u \in DOMAIN accounts :
        /\ accounts[u].coins >= 0
        /\ accounts[u].bank >= 0
        /\ accounts[u].loan_amount >= 0
        /\ accounts[u].loan_principal >= 0

\* a clawback has emptied the target's pocket and paid the frozen
\* debtor's loan down to 140
C11_Witness ==
    /\ last.op = "clawback"
    /\ accounts[2].coins = 0
    /\ accounts[1].loan_interest_frozen
    /\ accounts[1].loan_amount = 140


(***************************************************************************)
(* SpecPets: who owns whom.  purchase_pet with the flat capacity check,    *)
(* release_pet, ransom, escape, the forced release of excess pets that     *)
(* my_pets starts with, and liquidation selling pets, over three accounts. *)
(* pet_per_house is configured as 1, so that a master with a rented flat   *)
(* houses two pets and one of them is in excess when the lease ends.       *)
(***************************************************************************)
MaxPetSteps == 5
pet_per_house == 1
ReleaseRefundPct == 30
ExcessRefundPct == 50

PetUsers == {1, 2, 3}
PetScenarios == {"new", "landlord", "debtor"}

get_pet_capacity(user, t) ==
    (user.house_count + (IF user.rented_house_expiry > t THEN 1 ELSE 0))
        * pet_per_house

\* pet_details.sort(key=value, reverse=True): stable, highest value first
RECURSIVE InsertByValue(_, _, _)
InsertByValue(accts, sorted, pid) ==
    IF sorted = <<>> THEN <<pid>>
    ELSE IF accts[Head(sorted)].value >= accts[pid].value
    THEN <<Head(sorted)>> \o InsertByValue(accts, Tail(sorted), pid)
    ELSE <<pid>> \o sorted

RECURSIVE SortByValue(_, _)
SortByValue(accts, pets) ==
    IF pets = <<>> THEN <<>>
    ELSE InsertByValue(accts,
                       SortByValue(accts, SubSeq(pets, 1, Len(pets) - 1)),
                       pets[Len(pets)])

RECURSIVE ExcessRefund(_, _)
ExcessRefund(accts, released) ==
    IF released = <<>> THEN 0
    ELSE (accts[Head(released)].value * ExcessRefundPct) \div 100
         + ExcessRefund(accts, Tail(released))

\* mutant: the pets beyond the capacity leave the list but keep their master
ReleasedExcess_KeepMaster(accts, u, t) ==
    LET capacity == get_pet_capacity(accts[u], t)
        sorted == SortByValue(accts, accts[u].pets)
        released == SubSeq(sorted, capacity + 1, Len(sorted))
    IN IF Len(accts[u].pets) <= capacity THEN accts
       ELSE [accts EXCEPT
               ![u].pets = SubSeq(sorted, 1, capacity),
               ![u].coins = @ + ExcessRefund(accts, released)]

\* _check_and_release_excess_pets: the store afterwards
ReleasedExcess(accts, u, t) ==
    LET capacity == get_pet_capacity(accts[u], t)
        sorted == SortByValue(accts, accts[u].pets)
        kept == SubSeq(sorted, 1, capacity)
        released == SubSeq(sorted, capacity + 1, Len(sorted))
    IN IF Len(accts[u].pets) <= capacity THEN accts
       ELSE [x \in DOMAIN accts |->
               IF x = u
               THEN [accts[x] EXCEPT
                       !.pets = kept,
                       !.coins = @ + ExcessRefund(accts, released)]
               ELSE IF InSeq(x, released)
               THEN [accts[x] EXCEPT !.master = NoUser]
               ELSE accts[x]]

\* my_pets: forced release, then accrual and the liquidation check
MyPets(u) ==
    /\ Step
    /\ LET a1 == ReleasedExcess(accounts, u, now)
           r == AccrueAndCheck(a1, u, now)
       IN IF a1 # accounts
          THEN /\ accounts' = r.accts
               /\ debt_queue' = debt_queue \o r.tasks
               /\ outbox' = r.notices
               /\ last' = Result("my_pets", u, 0, "released")
          ELSE /\ accounts' = r.accts
               /\ debt_queue' = debt_queue \o r.tasks
               /\ outbox' = r.notices
               /\ last' = Result("my_pets", u, 0,
                                 IF r.ran THEN "liquidated" ELSE "ok")
    /\ UNCHANGED <<draining, now>>

\* release_pet of target by its master u; release_cooldown is configured 0
ReleasePet(u, target) ==
    /\ Step
    /\ Quiet
    /\ InSeq(target, accounts[u].pets)
    /\ accounts' =
          [accounts EXCEPT
             ![u].coins =
                 @ + (accounts[target].value * ReleaseRefundPct) \div 100,
             ![u].pets = SeqRemove(@, target),
             ![target].master = NoUser]
    /\ last' = Result("release_pet", u, target, "ok")
    /\ UNCHANGED <<debt_queue, draining, now>>

\* purchase_pet behind its check of the buyer's capacity
PurchasePetHoused(u, target, value_increase) ==
    /\ Len(accounts[u].pets) < get_pet_capacity(accounts[u], now)
    /\ PurchasePet(u, target, value_increase)

\* three new accounts; user 1 with a lease that ends after an hour and the
\* pets 2 and 3; user 1 in debt with the pet 2
PetAccounts(scenario) ==
    [u \in PetUsers |->
        CASE scenario = "new" -> NewAccount(0)
          [] scenario = "landlord" ->
                IF u = 1
                THEN [NewAccount(0) EXCEPT
                        !.coins = 500, !.pets = <<2, 3>>,
                        !.rented_house_expiry = SECONDS_PER_HOUR]
                ELSE [NewAccount(0) EXCEPT
                        !.master = 1,
                        !.value = IF u = 2 THEN DEFAULT_VALUE
                                  ELSE DEFAULT_VALUE + 20]
          [] scenario = "debtor" ->
                IF u = 1
                THEN [NewAccount(0) EXCEPT
                        !.coins = 0, !.loan_amount = 100,
                        !.loan_principal = 100, !.pets = <<2>>]
                ELSE IF u = 2 THEN [NewAccount(0) EXCEPT !.master = 1]
                ELSE NewAccount(0)]

InitPets ==
    /\ \E scenario \in PetScenarios : accounts = PetAccounts(scenario)
    /\ debt_queue = <<>>
    /\ draining = <<>>
    /\ now = 0
    /\ steps = 0
    /\ last = Result("init", NoUser, 0, "ok")
    /\ pre = <<>>
    /\ hist = <<>>
    /\ InitRest

NextPets ==
    \/ \E u \in PetUsers, t \in PetUsers, v \in ValueIncreases :
          steps < MaxPetSteps /\ PurchasePetHoused(u, t, v)
    \/ \E u \in PetUsers, t \in PetUsers :
          steps < MaxPetSteps /\ ReleasePet(u, t)
    \/ \E u \in PetUsers : steps < MaxPetSteps /\ Ransom(u)
    \/ \E u \in PetUsers, ok \in BOOLEAN :
          steps < MaxPetSteps /\ Escape(u, ok)
    \/ \E u \in PetUsers : steps < MaxPetSteps /\ MyPets(u)
    \/ \E u \in PetUsers : steps < MaxPetSteps /\ BankInfo(u)
    \/ \E d \in TickSteps : Tick(d)

SpecPets == InitPets /\ [][NextPets]_vars

\* C12: no account is its own master or its own pet, no two accounts are
\* each the master of the other, and every account is in the pets list of
\* at most one account.
C12_OwnershipSound ==
    /\ \A u \in DOMAIN accounts :
          /\ accounts[u].master # u
          /\ ~InSeq(u, accounts[u].pets)
    /\ \A u, v \in DOMAIN accounts :
          ~(accounts[u].master = v /\ accounts[v].master = u)
    /\ \A x \in DOMAIN accounts :
          Cardinality({u \in DOMAIN accounts :
                          InSeq(x, accounts[u].pets)}) <= 1

\* pet 3 was bought from master 1 by user 2, itself a pet of user 1
C12_Witness ==
    /\ last.op = "purchase_pet"
    /\ accounts[3].master = 2
    /\ accounts[2].pets = <<3>>
    /\ accounts[2].master = 1
    /\ accounts[1].pets = <<2>>

(***************************************************************************)
(* SpecLoan: one borrower whose debt, principal, cash, bank level and      *)
(* freeze flag are drawn at the start, so that take_loan meets the credit  *)
(* limit and repay_loan meets an empty pocket within two commands.         *)
(***************************************************************************)
MaxLoanSteps == 2

LoanUsers == {1}
\* <<loan_amount, loan_principal>>: no debt, a fresh loan, a loan near the
\* limit, a loan after one hour of interest, a loan at the limit
LoanDebts == {<<0, 0>>, <<100, 100>>, <<4900, 4900>>, <<4500, 3000>>,
              <<5000, 5000>>}
LoanCoins == {0, 150, 5000}
LoanLevels == {1, 2}
LoanRequests == {100, 500, 600, 5100}
RepayRequests == {0, 50, 100, 6000}

InitLoan ==
    /\ \E debt \in LoanDebts, c \in LoanCoins, level \in LoanLevels,
          frozen \in BOOLEAN :
          /\ frozen => debt[1] > 0
          /\ accounts = [u \in LoanUsers |->
                [NewAccount(0) EXCEPT !.loan_amount = debt[1],
                                      !.loan_principal = debt[2],
                                      !.coins = c,
                                      !.bank_level = level,
                                      !.loan_interest_frozen = frozen]]
    /\ debt_queue = <<>>
    /\ draining = <<>>
    /\ now = 0
    /\ steps = 0
    /\ last = Result("init", NoUser, 0, "ok")
    /\ pre = <<>>
    /\ hist = <<>>
    /\ InitRest

NextLoan ==
    \/ \E u \in LoanUsers, a \in LoanRequests :
          steps < MaxLoanSteps /\ TakeLoan(u, a)
    \/ \E u \in LoanUsers, r \in RepayRequests :
          steps < MaxLoanSteps /\ RepayLoan(u, r)
    \/ \E d \in TickSteps : Tick(d)

SpecLoan == InitLoan /\ [][NextLoan]_vars

\* C13: a take_loan of amount a that did not end in liquidation is turned
\* away exactly when the debt after accrual plus a is above bank_level x
\* loan_limit_per_level; an accepted loan adds exactly a to loan_amount,
\* loan_principal and coins (counted from the account after accrual), and
\* leaves loan_amount within the limit; a rejected one keeps the accrued
\* account.
C13_TakeLoanLimit ==
    [][\A u \in DOMAIN accounts :
        (last'.op = "take_loan" /\ last'.user = u
                                /\ last'.res # "liquidated") =>
        LET a == update_loan_interest(accounts[u], now).acct
            amount == last'.arg
            limit == a.bank_level * loan_limit_per_level
        IN /\ last'.res \in {"ok", "rejected"}
           /\ (last'.res = "rejected") <=> (a.loan_amount + amount > limit)
           /\ last'.res = "ok" =>
                /\ accounts'[u].loan_amount = a.loan_amount + amount
                /\ accounts'[u].loan_principal = a.loan_principal + amount
                /\ accounts'[u].coins = a.coins + amount
                /\ accounts'[u].loan_amount <= limit
           /\ last'.res = "rejected" =>
                /\ accounts'[u].loan_amount = a.loan_amount
                /\ accounts'[u].loan_principal = a.loan_principal
                /\ accounts'[u].coins = a.coins]_vars

\* a loan of 500 on a debt grown to 4500 was granted and reached the
\* limit of a level 1 bank exactly
C13_Witness ==
    /\ last.op = "take_loan"
    /\ last.res = "ok"
    /\ last.arg = 500
    /\ accounts[1].bank_level = 1
    /\ accounts[1].loan_amount = 5000
    /\ accounts[1].loan_principal = 3500

\* C14: an accepted repayment of requested amount r takes min(r, debt)
\* from coins and from loan_amount (the debt after accrual; r left out
\* means the whole debt), leaves loan_principal at the smaller of its old
\* value and the new debt, hence not above the debt; a repayment the payer
\* cannot afford changes neither coins nor loan_principal.
C14_RepayLoan ==
    [][\A u \in DOMAIN accounts :
        (last'.op = "repay_loan" /\ last'.user = u
                                 /\ last'.res \in {"ok", "rejected"}) =>
        LET a == update_loan_interest(accounts[u], now).acct
            r == IF last'.arg = 0 THEN a.loan_amount ELSE last'.arg
            paid == IF r < a.loan_amount THEN r ELSE a.loan_amount
        IN /\ (last'.res = "rejected") <=> (a.coins < paid)
           /\ last'.res = "ok" =>
                /\ accounts'[u].coins = a.coins - paid
                /\ accounts'[u].loan_amount = a.loan_amount - paid
                /\ accounts'[u].loan_principal =
                      (IF a.loan_principal < accounts'[u].loan_amount
                       THEN a.loan_principal ELSE accounts'[u].loan_amount)
                /\ accounts'[u].loan_principal <= accounts'[u].loan_amount
           /\ last'.res = "rejected" =>
                /\ accounts'[u].coins = accounts[u].coins
                /\ accounts'[u].loan_principal =
                      accounts[u].loan_principal]_vars

\* after one hour a debt of 100 stood at 150; a payment of 100 left 50
\* and pulled the principal down to 50
C14_Witness ==
    /\ last.op = "repay_loan"
    /\ last.res = "ok"
    /\ last.arg = 100
    /\ now = 3600
    /\ accounts[1].loan_amount = 50
    /\ accounts[1].loan_principal = 50

(***************************************************************************)
(* The notification of _check_and_liquidate, checked in SpecLiq.           *)
(***************************************************************************)
\* C15: _check_and_liquidate runs liquidation (the account changes, the
\* command ends as liquidated and exactly one message is sent) exactly
\* when max_multiplier > 0, loan_amount > 0, the account is not frozen and
\* loan_amount >= int(loan_principal x (1 + max_multiplier)); otherwise
\* nothing is sent and the account, the other accounts and the clawback
\* queue stay as they were; a store that changed has a message with it.
C15_LiquidationNotified ==
    [][\A u \in DOMAIN accounts :
        (last'.op = "bank_info" /\ last'.user = u /\ steps' # steps) =>
        LET a == update_loan_interest(accounts[u], now).acct
            threshold == (a.loan_principal * (100 + MaxMultiplierPct)) \div 100
            triggers == /\ MaxMultiplierPct > 0
                        /\ a.loan_amount > 0
                        /\ ~a.loan_interest_frozen
                        /\ a.loan_amount >= threshold
            before == [accounts EXCEPT ![u] = a]
        IN /\ (last'.res = "liquidated") <=> triggers
           /\ triggers => /\ Len(outbox') = 1
                          /\ outbox'[1].to = u
                          /\ accounts'[u] # a
           /\ ~triggers => /\ outbox' = <<>>
                           /\ accounts' = before
                           /\ debt_queue' = debt_queue
           /\ (accounts' # before \/ debt_queue' # debt_queue) =>
                 outbox' # <<>>]_vars

\* a liquidation that sold a pet, enqueued a clawback and sent its one
\* notice
C15_Witness ==
    /\ Liquidated
    /\ Len(outbox) = 1
    /\ accounts[1].loan_interest_frozen
    /\ pre[1].pets # <<>>
    /\ accounts[1].pets = <<>>
    /\ Len(debt_queue) = 1

(***************************************************************************)
(* SpecClaw: _process_debt_queue on drawn stores.  User 1 is a liquidated  *)
(* debtor (frozen while it owes), user 2 received its transfers; the queue *)
(* holds one or two tasks for them.                                        *)
(***************************************************************************)
MaxClawSteps == 4

ClawUsers == {1, 2}
ClawDebts == {0, 50, 100, 300}
ClawCoins == {0, 30, 100, 500}
ClawBank == {0, 50, 500}
ClawCaps == {100, 200}
ClawQueues ==
    {<<[debtor_id |-> 1, target_id |-> 2, amount |-> c]>> : c \in ClawCaps}
    \cup
    {<<[debtor_id |-> 1, target_id |-> 2, amount |-> c1],
       [debtor_id |-> 1, target_id |-> 2, amount |-> c2]>> :
        c1 \in ClawCaps, c2 \in ClawCaps}

InitClaw ==
    /\ \E d \in ClawDebts, c \in ClawCoins, b \in ClawBank :
          accounts = [u \in ClawUsers |->
              IF u = 1
              THEN [NewAccount(0) EXCEPT
                      !.loan_amount = d,
                      !.loan_principal = IF d > 0 THEN 150 ELSE 0,
                      !.loan_interest_frozen = (d > 0)]
              ELSE [NewAccount(0) EXCEPT !.coins = c, !.bank = b]]
    /\ debt_queue \in ClawQueues
    /\ draining = <<>>
    /\ now = 0
    /\ steps = 0
    /\ last = Result("init", NoUser, 0, "ok")
    /\ pre = <<>>
    /\ hist = <<>>
    /\ InitRest

NextClaw ==
    \/ steps < MaxClawSteps /\ DrainStart
    \/ \E ok \in BOOLEAN : steps < MaxClawSteps /\ ProcessTask(ok)
    \/ \E r \in RepayAmounts : steps < MaxClawSteps /\ RepayLoan(1, r)
    \/ \E d \in TickSteps : Tick(d)

SpecClaw == InitClaw /\ [][NextClaw]_vars

\* C16: one clawback task with cap c, for a debtor who owes d > 0, takes
\* exactly min(c, d, coins + bank of the target): from the target's coins
\* first and from its bank only for what the coins did not cover; the
\* debtor's loan_amount falls by exactly what was taken, and none of the
\* three balances goes below zero.
C16_ClawbackAmount ==
    [][(last'.op = "clawback" /\ last'.res = "ok" /\ draining # <<>>
        /\ accounts[Head(draining).debtor_id].loan_amount > 0) =>
        LET task == Head(draining)
            c == task.amount
            d == accounts[task.debtor_id].loan_amount
            target == accounts[task.target_id]
            assets == target.coins + target.bank
            cd == IF c < d THEN c ELSE d
            recovered == IF cd < assets THEN cd ELSE assets
            from_coins == IF target.coins < recovered THEN target.coins
                          ELSE recovered
        IN /\ accounts'[task.target_id].coins = target.coins - from_coins
           /\ accounts'[task.target_id].bank =
                 target.bank - (recovered - from_coins)
           /\ accounts'[task.debtor_id].loan_amount = d - recovered
           /\ accounts'[task.target_id].coins >= 0
           /\ accounts'[task.target_id].bank >= 0
           /\ accounts'[task.debtor_id].loan_amount >= 0]_vars

\* a task capped at 200 against a debt of 300 found 30 coins and 500 in
\* the bank: the coins went first, 170 came from the bank
C16_Witness ==
    /\ last.op = "clawback"
    /\ last.res = "ok"
    /\ last.arg = 200
    /\ accounts[2].coins = 0
    /\ accounts[2].bank = 330
    /\ accounts[1].loan_amount = 100

(***************************************************************************)
(* The life of a clawback task, checked in the ledger Spec.                *)
(***************************************************************************)
\* C17: the queue grows only in a step that ran liquidation, and then at
\* its end; a pass takes the whole queue and leaves it empty; each task of
\* the pass is taken off once, whether it recovered all, part or nothing
\* or raised an error, and no step of a pass puts a task on the queue.
C17_TasksNeverRequeued ==
    [][/\ debt_queue' # debt_queue =>
            \/ /\ last'.res = "liquidated"
               /\ Len(debt_queue') > Len(debt_queue)
               /\ SubSeq(debt_queue', 1, Len(debt_queue)) = debt_queue
               /\ draining' = draining
            \/ /\ last'.op = "drain"
               /\ debt_queue' = <<>>
               /\ draining = <<>>
               /\ draining' = debt_queue
       /\ draining' # draining =>
            \/ /\ last'.op = "drain"
               /\ debt_queue' = <<>>
               /\ draining = <<>>
               /\ draining' = debt_queue
            \/ /\ last'.op = "clawback"
               /\ draining' = Tail(draining)
               /\ debt_queue' = debt_queue
       /\ last'.op = "clawback" =>
            /\ draining # <<>>
            /\ draining' = Tail(draining)
            /\ debt_queue' = debt_queue]_vars

\* the only task of a pass raised an error: it is gone from the pass and
\* from the queue while the debtor still owes
C17_Witness ==
    /\ last.op = "clawback"
    /\ last.res = "error"
    /\ draining = <<>>
    /\ debt_queue = <<>>
    /\ accounts[last.user].loan_amount > 0
    /\ accounts[last.user].loan_interest_frozen

(***************************************************************************)
(* SpecGet: _get_user_data on a store that holds some keys and not others. *)
(* Here `accounts` is a function on the keys present; a record written by  *)
(* an older version lacks the loan or the robbery fields.                  *)
(***************************************************************************)
MaxGetSteps == 2

GetUsers == {1, 2}
GetCoins == {0, 150, 900}
GetLoans == {0, 300}
LoanFields == {"loan_amount", "loan_principal", "loan_interest_frozen",
               "last_loan_interest_time"}
RobFields == {"rob_fail_streak", "rob_pending_penalty"}
\* the fields a stored record may lack
MissingFields == {{}, RobFields, {"loan_principal"} \cup RobFields,
                  LoanFields \cup RobFields}

Without(user, fields) == [f \in DOMAIN user \ fields |-> user[f]]

\* `if key not in user: user[key] = value`
SetDefault(user, key, value) ==
    IF key \in DOMAIN user THEN user
    ELSE [f \in DOMAIN user \cup {key} |->
             IF f = key THEN value ELSE user[f]]

\* the branch of _get_user_data for a key that is in the store
FillMissing(user, t) ==
    LET u1 == SetDefault(user, "loan_amount", 0)
        u2 == SetDefault(u1, "loan_principal", u1.loan_amount)
        u3 == SetDefault(u2, "loan_interest_frozen", FALSE)
        u4 == SetDefault(u3, "last_loan_interest_time", t)
        u5 == SetDefault(u4, "rob_fail_streak", 0)
    IN SetDefault(u5, "rob_pending_penalty", <<>>)

\* mutant: a new key is inserted without _mark_dirty
mark_dirty_Skipped(flag, version) == [dirty |-> flag, version |-> version]

mark_dirty(flag, version) == [dirty |-> TRUE, version |-> version + 1]

\* the store after _get_user_data(group_id, user_id) at time t
get_user_data(accts, user_id, t) ==
    IF user_id \in DOMAIN accts
    THEN [accts EXCEPT ![user_id] = FillMissing(@, t)]
    ELSE [k \in DOMAIN accts \cup {user_id} |->
             IF k = user_id THEN NewAccount(t) ELSE accts[k]]

GetUserData(u) ==
    /\ steps < MaxGetSteps
    /\ steps' = steps + 1
    /\ accounts' = get_user_data(accounts, u, now)
    /\ IF u \in DOMAIN accounts
       THEN UNCHANGED <<dirty, dirty_version>>
       ELSE /\ dirty' = mark_dirty(dirty, dirty_version).dirty
            /\ dirty_version' = mark_dirty(dirty, dirty_version).version
    /\ last' = Result("get_user_data", u, 0,
                      IF u \in DOMAIN accounts THEN "found" ELSE "created")
    /\ Quiet
    /\ UNCHANGED <<debt_queue, draining, now, pre, hist, pet_data, disk,
                   backups, save_pc, version_before, data_copy, writer_pc,
                   last_write, io_failed, market_pc, market_ticks, term_pc,
                   ready, loadVars, lockVars, market>>

StoredRecord(coins, loan, missing) ==
    Without([NewAccount(0) EXCEPT !.coins = coins, !.bank = 900 - coins,
                                  !.loan_amount = loan,
                                  !.loan_principal = loan],
            missing)

InitGet ==
    /\ \/ accounts = <<>>
       \/ \E coins \in GetCoins, loan \in GetLoans, missing \in MissingFields :
             accounts = [k \in {1} |-> StoredRecord(coins, loan, missing)]
    /\ debt_queue = <<>>
    /\ draining = <<>>
    /\ now = 0
    /\ steps = 0
    /\ last = Result("init", NoUser, 0, "ok")
    /\ pre = <<>>
    /\ hist = <<>>
    /\ pet_data = EmptyStore
    /\ disk = FileOf(EmptyStore)
    /\ backups = <<>>
    /\ \E v \in {0, 1} : dirty_version = v /\ dirty \in {FALSE, v > 0}
    /\ save_pc = "sleep"
    /\ version_before = 0
    /\ data_copy = EmptyStore
    /\ writer_pc = "idle"
    /\ last_write = "none"
    /\ io_failed = FALSE
    /\ market_pc = "sleep"
    /\ market_ticks = 0
    /\ term_pc = "running"
    /\ ready = <<>>
    /\ market = InitMarket
    /\ outbox = <<>>
    /\ load_pc = "done"
    /\ InitNoCommands

NextGet ==
    \/ \E u \in GetUsers : GetUserData(u)
    \/ \E d \in TickSteps : Tick(d)

SpecGet == InitGet /\ [][NextGet]_vars

\* the value user.get(key, default) reads
Get(user, key, default) == IF key \in DOMAIN user THEN user[key] ELSE default

\* C18: _get_user_data for a key not in the store inserts a record with
\* coins = INITIAL_COINS > 0, bank_level 1, bank 0, loan_amount 0,
\* loan_principal 0 and not frozen, sets the dirty flag and adds one to the
\* version; for a key in the store it keeps every stored field of the
\* record, hence coins, bank and loan_amount, and the other records.
C18_GetUserData ==
    [][\A u \in GetUsers :
        (last'.op = "get_user_data" /\ last'.user = u) =>
        IF u \notin DOMAIN accounts
        THEN /\ DOMAIN accounts' = DOMAIN accounts \cup {u}
             /\ accounts'[u].coins = INITIAL_COINS
             /\ INITIAL_COINS > 0
             /\ accounts'[u].bank_level = 1
             /\ accounts'[u].bank = 0
             /\ accounts'[u].loan_amount = 0
             /\ accounts'[u].loan_principal = 0
             /\ ~accounts'[u].loan_interest_frozen
             /\ dirty'
             /\ dirty_version' = dirty_version + 1
             /\ \A k \in DOMAIN accounts : accounts'[k] = accounts[k]
        ELSE /\ DOMAIN accounts' = DOMAIN accounts
             /\ \A f \in DOMAIN accounts[u] : accounts'[u][f] = accounts[u][f]
             /\ accounts'[u].coins = accounts[u].coins
             /\ accounts'[u].bank = accounts[u].bank
             /\ accounts'[u].loan_amount = Get(accounts[u], "loan_amount", 0)
             /\ \A k \in DOMAIN accounts \ {u} : accounts'[k] = accounts[k]]_vars

\* key 2 was created next to a stored record that an earlier call had
\* returned, and the version went from 1 to 2
C18_Witness ==
    /\ last.op = "get_user_data"
    /\ last.res = "created"
    /\ last.user = 2
    /\ DOMAIN accounts = {1, 2}
    /\ accounts[2].coins = INITIAL_COINS
    /\ accounts[1].coins = 900
    /\ "loan_principal" \in DOMAIN accounts[1]
    /\ dirty
    /\ dirty_version = 2

(***************************************************************************)
(* Rejected commands, checked in SpecBank.                                 *)
(***************************************************************************)
\* C19: a command rejected for a validation reason (not enough coins or
\* bank balance, credit or bank limit exceeded) leaves every field of
\* every account as it was before the command started.
C19_RejectionMutatesNothing ==
    [][last'.res = "rejected" => accounts' = accounts]_vars

(***************************************************************************)
(* SpecMarket: update_market on drawn prices.  F101 (volatility 0.001) and *)
(* C304 (volatility 0.80, base price at the floor) start from prices that  *)
(* earlier ticks can leave; every tick draws one shock per instrument.     *)
(***************************************************************************)
MaxTicks == 3

StartPrices ==
    {[c \in Instruments |-> IF c = "F101" THEN f ELSE s] :
        f \in {9000, 10000, 10300}, s \in {100, 200}}

\* _market_update_loop: one call of update_market
UpdateMarket(draws) ==
    /\ market_ticks < MaxTicks
    /\ market_ticks' = market_ticks + 1
    /\ market' = update_market(market, draws)
    /\ last' = Result("update_market", NoUser, 0, "ok")
    /\ Quiet
    /\ UNCHANGED <<accounts, debt_queue, draining, now, steps, pre, hist,
                   pet_data, disk, backups, dirty, dirty_version, save_pc,
                   version_before, data_copy, writer_pc, last_write,
                   io_failed, market_pc, term_pc, ready, loadVars, lockVars>>

\* the start: the plugin at rest, with the prices replaced by drawn ones
InitTicks ==
    \E p \in StartPrices :
        /\ market = [c \in Instruments |->
                        [current_price |-> p[c], change_percent |-> 0]]
        /\ accounts = [u \in Users |-> NewAccount(0)]
        /\ debt_queue = <<>>
        /\ draining = <<>>
        /\ now = 0
        /\ steps = 0
        /\ last = Result("init", NoUser, 0, "ok")
        /\ pre = <<>>
        /\ hist = <<>>
        /\ pet_data = EmptyStore
        /\ disk = FileOf(EmptyStore)
        /\ backups = <<>>
        /\ dirty = FALSE
        /\ dirty_version = 0
        /\ save_pc = "sleep"
        /\ version_before = 0
        /\ data_copy = EmptyStore
        /\ writer_pc = "idle"
        /\ last_write = "none"
        /\ io_failed = FALSE
        /\ market_pc = "sleep"
        /\ market_ticks = 0
        /\ term_pc = "running"
        /\ ready = <<>>
        /\ outbox = <<>>
        /\ load_pc = "done"
        /\ InitNoCommands

NextMarket == \E draws \in [Instruments -> GaussDraws] : UpdateMarket(draws)

SpecMarket == InitTicks /\ [][NextMarket]_vars

\* C20: after every market tick every instrument has current_price >= 0.01
\* and the change applied to the previous price is at most 2 x volatility
\* in magnitude: the new price is the previous price times one plus that
\* change, rounded to four places, or the floor 0.01.
C20_MarketTickBounded ==
    [][market_ticks' # market_ticks =>
        \A c \in Instruments :
            LET old == market[c].current_price
                new == market'[c].current_price
                applied == market'[c].change_percent
                cap == 2 * default_instruments[c].volatility
                exact == old * (ChangeScale + applied)
                off == new * ChangeScale - exact
            IN /\ new >= MinPrice
               /\ applied <= cap
               /\ applied >= 0 - cap
               /\ \/ new = MinPrice /\ exact <= MinPrice * ChangeScale
                  \/ 2 * off <= ChangeScale /\ 2 * off >= 0 - ChangeScale]_vars

\* a shock of three standard deviations in both instruments: C304 fell by
\* the full 160 percent to the floor, F101 rose by the full 0.2 percent
C20_Witness ==
    /\ last.op = "update_market"
    /\ market["C304"].change_percent = -160000
    /\ market["C304"].current_price = MinPrice
    /\ market["F101"].change_percent = 200
    /\ market["F101"].current_price = 10321

(***************************************************************************)
(* SpecTrade: buy_instrument and sell_instrument of one user on F101,      *)
(* whose price stands at 2.0 or 2.5 and moves between the two as market    *)
(* ticks pass between commands.                                            *)
(***************************************************************************)
MaxTradeSteps == 4

TradeUsers == {1}
TradeCode == "F101"
TradePrices == {20000, 25000}
TradeBuys == {100, 1000}
\* coins asked for; 0 is "all"
TradeSells == {0, 100, 625}
TradeCoins == {150, 1200}

\* the ticks of update_market between two commands, by their sum: the
\* price has moved to p
PriceMove(p) ==
    /\ steps < MaxTradeSteps
    /\ steps' = steps + 1
    /\ p # market[TradeCode].current_price
    /\ market' = [market EXCEPT ![TradeCode].current_price = p]
    /\ last' = Result("update_market", NoUser, p, "ok")
    /\ Quiet
    /\ UNCHANGED <<accounts, debt_queue, draining, now, pre, hist, saveVars,
                   loadVars, lockVars>>

InitTrade ==
    /\ \E c \in TradeCoins :
          accounts = [u \in TradeUsers |-> [NewAccount(0) EXCEPT !.coins = c]]
    /\ \E p \in TradePrices :
          market = [InitMarket EXCEPT ![TradeCode].current_price = p]
    /\ debt_queue = <<>>
    /\ draining = <<>>
    /\ now = 0
    /\ steps = 0
    /\ last = Result("init", NoUser, 0, "ok")
    /\ pre = <<>>
    /\ hist = <<>>
    /\ pet_data = EmptyStore
    /\ disk = FileOf(EmptyStore)
    /\ backups = <<>>
    /\ dirty = FALSE
    /\ dirty_version = 0
    /\ save_pc = "sleep"
    /\ version_before = 0
    /\ data_copy = EmptyStore
    /\ writer_pc = "idle"
    /\ last_write = "none"
    /\ io_failed = FALSE
    /\ market_pc = "sleep"
    /\ market_ticks = 0
    /\ term_pc = "running"
    /\ ready = <<>>
    /\ outbox = <<>>
    /\ load_pc = "done"
    /\ InitNoCommands

NextTrade ==
    \/ \E u \in TradeUsers, a \in TradeBuys :
          steps < MaxTradeSteps /\ BuyInstrument(u, TradeCode, a)
    \/ \E u \in TradeUsers, v \in TradeSells :
          steps < MaxTradeSteps /\ SellInstrument(u, TradeCode, v)
    \/ \E p \in TradePrices : PriceMove(p)

SpecTrade == InitTrade /\ [][NextTrade]_vars

\* C21: a purchase for a coins at price p adds a / p to shares and a to
\* total_cost, sets avg_price to total_cost / shares and takes a from
\* coins; a sale of s shares at price q pays int(s x q) coins, takes
\* s x avg_price off total_cost and reports the difference as profit.
\* Buying 1000 at 2.0 gives 500 shares, total_cost 1000, avg_price 2.0;
\* selling 250 of them at 2.5 pays 625, takes 500 off the cost and
\* reports +125.
C21_BuyAndSell ==
    [][\A u \in TradeUsers :
        LET old == accounts[u].holdings[TradeCode]
            new == accounts'[u].holdings[TradeCode]
            price == market[TradeCode].current_price
            unit == PriceScale * ShareScale
        IN /\ (last'.op = "buy_instrument" /\ last'.res = "ok") =>
                /\ new.shares = old.shares + (last'.arg * unit) \div price
                /\ new.total_cost = old.total_cost + last'.arg
                /\ new.avg_price = (new.total_cost * unit) \div new.shares
                /\ accounts'[u].coins = accounts[u].coins - last'.arg
                /\ (old = NoHolding /\ last'.arg = 1000 /\ price = 20000) =>
                      /\ new.shares = 500 * ShareScale
                      /\ new.total_cost = 1000
                      /\ new.avg_price = 20000
           /\ (last'.op = "sell_instrument" /\ last'.res = "ok") =>
                LET s == old.shares - new.shares
                    proceeds == accounts'[u].coins - accounts[u].coins
                    cost_reduction == (old.avg_price * s) \div unit
                IN /\ s > 0
                   /\ proceeds = (s * price) \div unit
                   /\ new.shares > 0 =>
                        new.total_cost = old.total_cost - cost_reduction
                   /\ SellProfit(old, last'.arg, price)
                         = proceeds - cost_reduction
                   /\ (old.shares = 500 * ShareScale /\ old.total_cost = 1000
                       /\ old.avg_price = 20000 /\ price = 25000
                       /\ s = 250 * ShareScale) =>
                        /\ proceeds = 625
                        /\ cost_reduction = 500
                        /\ new.total_cost = 500
                        /\ SellProfit(old, last'.arg, price) = 125]_vars

\* the scenario: 1000 coins bought 500 shares at 2.0; with the price at
\* 2.5 a sale of 625 coins' worth left 250 shares that carry a cost of 500
C21_Witness ==
    /\ last.op = "sell_instrument"
    /\ last.res = "ok"
    /\ last.arg = 625
    /\ market[TradeCode].current_price = 25000
    /\ accounts[1].holdings[TradeCode] =
          [shares |-> 250 * ShareScale, total_cost |-> 500,
           avg_price |-> 20000]
    /\ accounts[1].coins = 825

(***************************************************************************)
(* SpecRound: SpecTrade with a sale of everything that is followed at once *)
(* by a purchase for the coins the sale paid.  `pre` keeps the holding as  *)
(* the sale found it, the coins it paid and the price.                     *)
(***************************************************************************)
\* sell_instrument with "all"
SellAll(u) ==
    /\ steps < MaxTradeSteps
    /\ steps' = steps + 1
    /\ accounts[u].holdings[TradeCode].shares > 0
    /\ LET holding == accounts[u].holdings[TradeCode]
           price == market[TradeCode].current_price
       IN /\ accounts' = [accounts EXCEPT ![u] = Sold(@, TradeCode, 0, price)]
          /\ pre' = [holding |-> holding, price |-> price,
                     proceeds |-> Payout(holding, 0, price)]
    /\ last' = Result("sell_all", u, 0, "ok")
    /\ Quiet
    /\ UNCHANGED <<debt_queue, draining, now, hist, restVars>>

\* buy_instrument for the coins the sale has just paid
BuyBack(u) ==
    /\ steps < MaxTradeSteps
    /\ steps' = steps + 1
    /\ last.op = "sell_all"
    /\ last.user = u
    /\ IF pre.proceeds < min_buy_amount \/ accounts[u].coins < pre.proceeds
       THEN /\ UNCHANGED accounts
            /\ last' = Result("buy_back", u, pre.proceeds, "rejected")
       ELSE /\ accounts' =
                 [accounts EXCEPT
                    ![u].coins = @ - pre.proceeds,
                    ![u].holdings[TradeCode] =
                        Bought(@, pre.proceeds,
                               market[TradeCode].current_price)]
            /\ last' = Result("buy_back", u, pre.proceeds, "ok")
    /\ Quiet
    /\ UNCHANGED <<debt_queue, draining, now, pre, hist, restVars>>

NextRound ==
    \/ \E u \in TradeUsers, a \in TradeBuys :
          steps < MaxTradeSteps /\ BuyInstrument(u, TradeCode, a)
    \/ \E u \in TradeUsers, v \in TradeSells \ {0} :
          steps < MaxTradeSteps /\ SellInstrument(u, TradeCode, v)
    \/ \E u \in TradeUsers : SellAll(u)
    \/ \E u \in TradeUsers : BuyBack(u)
    \/ \E p \in TradePrices : PriceMove(p)

SpecRound == InitTrade /\ [][NextRound]_vars

\* the shares one coin buys at the price of the round trip
SharesPerCoin == (PriceScale * ShareScale) \div pre.price + 1

\* C22 as stated: after a sale of everything and a purchase for the
\* proceeds at the same price, shares and total_cost of the holding are
\* what they were before the sale, up to the rounding of the proceeds to
\* whole coins.
C22_Original ==
    last.op = "buy_back" =>
        LET new == accounts[last.user].holdings[TradeCode]
        IN /\ new.shares <= pre.holding.shares
           /\ new.shares >= pre.holding.shares - SharesPerCoin
           /\ new.total_cost <= pre.holding.total_cost + 1
           /\ new.total_cost >= pre.holding.total_cost - 1

\* C22 amended: if the proceeds reach the minimum purchase of 100 coins,
\* the shares return to what they were up to the rounding of the proceeds,
\* and total_cost becomes the proceeds int(shares x price): it is the old
\* total_cost (within a coin) only when the price is the holding's
\* avg_price.  With proceeds below 100 the purchase is refused and the
\* holding stays empty.
C22_Amended ==
    last.op = "buy_back" =>
        LET new == accounts[last.user].holdings[TradeCode]
            value == (pre.holding.shares * pre.price)
                        \div (PriceScale * ShareScale)
        IN /\ pre.proceeds = value
           /\ (last.res = "rejected") <=> (value < min_buy_amount)
           /\ last.res = "rejected" => new = NoHolding
           /\ last.res = "ok" =>
                /\ new.shares <= pre.holding.shares
                /\ new.shares >= pre.holding.shares - SharesPerCoin
                /\ new.total_cost = value
                /\ pre.price = pre.holding.avg_price =>
                      /\ new.total_cost <= pre.holding.total_cost + 1
                      /\ new.total_cost >= pre.holding.total_cost - 1

\* 500 shares bought for 1000 at 2.0 were sold at 2.5 for 1250 and bought
\* back: 500 shares again, now at a cost of 1250
C22_Witness ==
    /\ last.op = "buy_back"
    /\ last.res = "ok"
    /\ pre.holding.total_cost = 1000
    /\ pre.price = 25000
    /\ accounts[1].holdings[TradeCode] =
          [shares |-> 500 * ShareScale, total_cost |-> 1250,
           avg_price |-> 25000]

(***************************************************************************)
(* SpecInvest: the investments of the older version.  _settle_investments  *)
(* moves the value of every active investment that is due by a drawn rate  *)
(* (in units of 0.001) and asks _check_investment_trigger.                 *)
(***************************************************************************)
MaxInvestSteps == 2
RateScale == 1000
TakeProfitPct == 10
StopLossPct == 5
SettlePeriod == 3600

InvestUsers == {1}
\* <<amount, addon_amount>>
InvestInputs == {<<5000, 0>>, <<5000, 2000>>, <<100, 0>>, <<0, 0>>}
\* rates of the main trends and of the add-on trends
MainRates == {-100, -50, -49, 0, 40, 99, 100}
AddonRates == {-51, -50, 0, 40, 100, 101}

\* mutant: the add-on is left out of the total input
check_investment_trigger_NoAddon(investment) ==
    LET total_input == investment.amount
    IN IF total_input <= 0 THEN "none"
       ELSE IF 100 * (investment.current_value - total_input)
                  >= TakeProfitPct * total_input THEN "take_profit"
       ELSE IF 100 * (investment.current_value - total_input)
                  <= 0 - StopLossPct * total_input THEN "stop_loss"
       ELSE "none"

\* profit_rate >= 0.10, profit_rate <= -0.05, on integers
check_investment_trigger(investment) ==
    LET total_input == investment.amount + investment.addon_amount
    IN IF total_input <= 0 THEN "none"
       ELSE IF 100 * (investment.current_value - total_input)
                  >= TakeProfitPct * total_input THEN "take_profit"
       ELSE IF 100 * (investment.current_value - total_input)
                  <= 0 - StopLossPct * total_input THEN "stop_loss"
       ELSE "none"

\* int(old_value * (1 + change_rate))
NewValue(old_value, rate) == (old_value * (RateScale + rate)) \div RateScale

Settled(investment, rate, t) ==
    [investment EXCEPT !.current_value = NewValue(@, rate),
                       !.next_settlement_time = t + SettlePeriod]

\* _settle_investments for a user with one active investment that is due;
\* the trigger it found is the outcome of the step
SettleInvestments(u, rate) ==
    /\ steps < MaxInvestSteps
    /\ steps' = steps + 1
    /\ Len(accounts[u].investments) = 1
    /\ accounts[u].investments[1].status = "active"
    /\ now >= accounts[u].investments[1].next_settlement_time
    /\ rate \in (IF accounts[u].investments[1].addon_amount > 0
                 THEN AddonRates ELSE MainRates)
    /\ accounts' = [accounts EXCEPT
                      ![u].investments[1] = Settled(@, rate, now)]
    /\ last' = Result("settle_investments", u, rate,
                      check_investment_trigger(
                          Settled(accounts[u].investments[1], rate, now)))
    /\ Quiet
    /\ UNCHANGED <<debt_queue, draining, now, pre, hist, restVars>>

InitInvest ==
    /\ \E input \in InvestInputs :
          accounts = [u \in InvestUsers |->
              [NewAccount(0) EXCEPT !.investments =
                  <<[amount |-> input[1], addon_amount |-> input[2],
                     current_value |-> input[1] + input[2],
                     status |-> "active", next_settlement_time |-> 0]>>]]
    /\ debt_queue = <<>>
    /\ draining = <<>>
    /\ now = 0
    /\ steps = 0
    /\ last = Result("init", NoUser, 0, "ok")
    /\ pre = <<>>
    /\ hist = <<>>
    /\ InitRest

NextInvest ==
    \/ \E u \in InvestUsers, rate \in MainRates \cup AddonRates :
          SettleInvestments(u, rate)
    \/ \E d \in TickSteps : Tick(d)

SpecInvest == InitInvest /\ [][NextInvest]_vars

\* C23: for an investment with total input T = amount + addon_amount > 0
\* the trigger is take-profit exactly when current_value - T is at least
\* 10% of T, stop-loss exactly when it is at most -5% of T, and none
\* otherwise; 5000 + 2000 at a value of 7700 is take-profit, 5000 at a
\* value of 5200 is no trigger.
C23_InvestmentTrigger ==
    last.op = "settle_investments" =>
        LET inv == accounts[last.user].investments[1]
            T == inv.amount + inv.addon_amount
            gain == inv.current_value - T
        IN /\ T > 0 =>
                /\ (last.res = "take_profit") <=> (10 * gain >= T)
                /\ (last.res = "stop_loss") <=> (20 * gain <= 0 - T)
                /\ (last.res = "none") <=>
                      (10 * gain < T /\ 20 * gain > 0 - T)
           /\ (inv.amount = 5000 /\ inv.addon_amount = 2000
                 /\ inv.current_value = 7700) => last.res = "take_profit"
           /\ (inv.amount = 5000 /\ inv.addon_amount = 0
                 /\ inv.current_value = 5200) => last.res = "none"

\* the add-on case of the claim: 7000 put in, one settlement at +10%
C23_Witness ==
    /\ last.op = "settle_investments"
    /\ last.res = "take_profit"
    /\ accounts[1].investments[1].amount = 5000
    /\ accounts[1].investments[1].addon_amount = 2000
    /\ accounts[1].investments[1].current_value = 7700

(***************************************************************************)
(* The order of the seizures, checked in SpecLiq.                          *)
(***************************************************************************)
\* C24: liquidation takes cash only above the safety floor of 1000 and at
\* most the debt; then bank balance only if debt remains, at most that
\* remainder; then pets only if debt still remains, in list order, each
\* for 80% of its value, its master cleared and its entry removed, and
\* stops selling as soon as the proceeds cover what remained.
C24_SeizureOrder ==
    [][\A u \in DOMAIN accounts :
        (last'.op = "bank_info" /\ last'.user = u
                                /\ last'.res = "liquidated") =>
        LET a == update_loan_interest(accounts[u], now).acct
            debt == a.loan_amount
            cash == SeizeCash(a)
            bank_taken == a.bank - accounts'[u].bank
            after_bank == debt - cash - bank_taken
            n == Len(a.pets)
            k == n - Len(accounts'[u].pets)
            income[i \in 0..n] ==
                IF i = 0 THEN 0
                ELSE income[i - 1] + (accounts[a.pets[i]].value * 80) \div 100
        IN /\ cash >= 0 /\ cash <= debt
           /\ cash > 0 => a.coins - cash >= 1000
           /\ a.coins > 1000 => cash = Min(a.coins - 1000, debt)
           /\ bank_taken >= 0 /\ bank_taken <= a.bank
           /\ bank_taken > 0 => debt - cash > 0
           /\ bank_taken = Min(a.bank, debt - cash)
           /\ k >= 0
           /\ k > 0 => after_bank > 0
           /\ accounts'[u].pets = SubSeq(a.pets, k + 1, n)
           /\ \A i \in 1..k : /\ accounts'[a.pets[i]].master = NoUser
                              /\ income[i - 1] < after_bank
           /\ \A i \in (k + 1)..n :
                 accounts'[a.pets[i]].master = accounts[a.pets[i]].master
           /\ (after_bank > 0 /\ k < n) => income[k] >= after_bank
           /\ accounts'[u].loan_amount = Max(0, after_bank - income[k])]_vars

\* 500 in cash above the floor, 300 in the bank and the first of two pets
\* (1200 for a value of 1500) cleared a debt of 2000; the second pet stayed
C24_Witness ==
    /\ Liquidated
    /\ pre[1].coins = 1500
    /\ pre[1].bank = 300
    /\ pre[1].pets = <<2, 3>>
    /\ accounts[1].bank = 0
    /\ accounts[1].pets = <<3>>
    /\ accounts[2].master = NoUser
    /\ accounts[3].master = 1
    /\ accounts[1].loan_amount = 0
    /\ accounts[1].coins = 1000

(***************************************************************************)
(* SpecReliq: a debtor after a first liquidation (frozen, owing 100, its   *)
(* transfer list emptied, perhaps with a transfer made since, perhaps with *)
(* the task of the first liquidation still queued) who repays, borrows,    *)
(* transfers and is liquidated a second time.                              *)
(***************************************************************************)
MaxReliqSteps == 5

ReliqUsers == {1, 2}
ReliqTransfers == {<<>>, <<[target |-> 2, amount |-> 100]>>}
ReliqQueues == {<<>>, <<[debtor_id |-> 1, target_id |-> 2, amount |-> 100]>>}
ReliqTargetCoins == {0, 500}

InitReliq ==
    /\ \E transfers \in ReliqTransfers, c \in ReliqTargetCoins :
          accounts = [u \in ReliqUsers |->
              IF u = 1
              THEN [NewAccount(0) EXCEPT !.loan_amount = 100,
                                         !.loan_principal = 100,
                                         !.loan_interest_frozen = TRUE,
                                         !.loan_transfers = transfers]
              ELSE [NewAccount(0) EXCEPT !.coins = c]]
    /\ debt_queue \in ReliqQueues
    /\ draining = <<>>
    /\ now = 0
    /\ steps = 0
    /\ last = Result("init", NoUser, 0, "ok")
    /\ pre = <<>>
    /\ hist = <<>>
    /\ InitRest

NextReliq ==
    \/ \E a \in LoanAmounts : steps < MaxReliqSteps /\ TakeLoan(1, a)
    \/ \E a \in RepayAmounts : steps < MaxReliqSteps /\ RepayLoan(1, a)
    \/ steps < MaxReliqSteps /\ BankInfo(1)
    \/ \E a \in TransferAmounts : steps < MaxReliqSteps /\ Transfer(1, 2, a)
    \/ steps < MaxReliqSteps /\ DrainStart
    \/ \E ok \in BOOLEAN : steps < MaxReliqSteps /\ ProcessTask(ok)
    \/ \E d \in TickSteps : Tick(d)

SpecReliq == InitReliq /\ [][NextReliq]_vars

\* C25: a liquidation that leaves debt freezes the account, appends to the
\* queue exactly one task for each transfer in the debtor's loan_transfers
\* (same target, same amount, in order) and empties that list; the list
\* grows only by the record of a transfer the debtor makes while it owes,
\* so no later liquidation finds a transfer that was already enqueued.
C25_OneTaskPerTransfer ==
    [][\A u \in DOMAIN accounts :
        /\ (last'.res = "liquidated" /\ last'.user = u
                /\ accounts'[u].loan_amount > 0) =>
              LET recorded == accounts[u].loan_transfers
              IN /\ accounts'[u].loan_interest_frozen
                 /\ accounts'[u].loan_transfers = <<>>
                 /\ Len(debt_queue') = Len(debt_queue) + Len(recorded)
                 /\ SubSeq(debt_queue', 1, Len(debt_queue)) = debt_queue
                 /\ \A i \in 1..Len(recorded) :
                       debt_queue'[Len(debt_queue) + i] =
                           [debtor_id |-> u,
                            target_id |-> recorded[i].target,
                            amount |-> recorded[i].amount]
        /\ accounts'[u].loan_transfers # accounts[u].loan_transfers =>
              \/ accounts'[u].loan_transfers = <<>>
              \/ /\ last'.op = "transfer" /\ last'.user = u
                 /\ accounts[u].loan_amount > 0
                 /\ Len(accounts'[u].loan_transfers) =
                       Len(accounts[u].loan_transfers) + 1
                 /\ SubSeq(accounts'[u].loan_transfers, 1,
                           Len(accounts[u].loan_transfers)) =
                       accounts[u].loan_transfers
                 /\ accounts'[u].loan_transfers[
                        Len(accounts'[u].loan_transfers)].amount = last'.arg]_vars

\* the second liquidation of user 1: the task of the first one is still
\* queued, and one task was added for the one transfer made since
C25_Witness ==
    /\ last.res = "liquidated"
    /\ last.user = 1
    /\ accounts[1].loan_interest_frozen
    /\ accounts[1].loan_transfers = <<>>
    /\ Len(debt_queue) = 2
    /\ steps >= 4

(***************************************************************************)
(* SpecEnq: the store right after a liquidation of user 1 that left debt   *)
(* and enqueued clawback tasks; `pre` keeps the debt that remained at that *)
(* moment.  The debtor then borrows, repays or tries to escape while the   *)
(* queue is drained.                                                       *)
(***************************************************************************)
MaxEnqSteps == 4

EnqUsers == {1, 2}
EnqCoins == {0, 150, 1150}
EnqDebts == {<<200, 100>>, <<400, 200>>}
EnqTransfers == {<<[target |-> 2, amount |-> 100]>>,
                 <<[target |-> 2, amount |-> 100],
                   [target |-> 2, amount |-> 50]>>}
EnqTargetCoins == {0, 60, 500}
EnqTargetBank == {0, 300}

\* the store a liquidating command finds: user 1 owes, user 2 received its
\* transfers and may be its master
EnqStore(coins, debt, transfers, c, b, owned) ==
    [u \in EnqUsers |->
        IF u = 1
        THEN [NewAccount(0) EXCEPT !.coins = coins,
                                   !.loan_amount = debt[1],
                                   !.loan_principal = debt[2],
                                   !.loan_transfers = transfers,
                                   !.master = IF owned THEN 2 ELSE NoUser]
        ELSE [NewAccount(0) EXCEPT !.coins = c, !.bank = b,
                                   !.pets = IF owned THEN <<1>> ELSE <<>>]]

InitEnq ==
    /\ \E coins \in EnqCoins, debt \in EnqDebts, transfers \in EnqTransfers,
          c \in EnqTargetCoins, b \in EnqTargetBank, owned \in BOOLEAN :
          LET r == AccrueAndCheck(
                       EnqStore(coins, debt, transfers, c, b, owned), 1, 0)
          IN /\ r.ran
             /\ r.tasks # <<>>
             /\ accounts = r.accts
             /\ debt_queue = r.tasks
             /\ pre = [debt |-> r.accts[1].loan_amount]
    /\ draining = <<>>
    /\ now = 0
    /\ steps = 0
    /\ last = Result("bank_info", 1, 0, "liquidated")
    /\ hist = <<>>
    /\ InitRest

NextEnq ==
    \/ \E a \in LoanAmounts : steps < MaxEnqSteps /\ TakeLoan(1, a)
    \/ \E a \in RepayAmounts : steps < MaxEnqSteps /\ RepayLoan(1, a)
    \/ \E success \in BOOLEAN : steps < MaxEnqSteps /\ Escape(1, success)
    \/ steps < MaxEnqSteps /\ DrainStart
    \/ \E ok \in BOOLEAN : steps < MaxEnqSteps /\ ProcessTask(ok)

SpecEnq == InitEnq /\ [][NextEnq]_vars

\* C26: what one clawback task takes off the debt (and so from its target)
\* is at most min(the task's amount, the debt that remained when the task
\* was enqueued), whatever the debtor did in between.
C26_RecoveryWithinEnqueuedDebt ==
    [][last'.op = "clawback" =>
          accounts[last'.user].loan_amount - accounts'[last'.user].loan_amount
              <= Min(last'.arg, pre.debt)]_vars

(***************************************************************************)
(* SpecStale: the drain of the queue on a store whose records may have     *)
(* been removed since the tasks were enqueued.  manual_cleanup empties the *)
(* group; _process_debt_queue reads debtor and target with _get_user_data, *)
(* which inserts a record for a key that is not in the store.              *)
(***************************************************************************)
MaxStaleSteps == 4

\* n calls of _mark_dirty
MarkedTimes(flag, version, n) ==
    [dirty |-> flag \/ n > 0, version |-> version + n]

\* manual_cleanup by an administrator: pet_data[group_id] = {}, _mark_dirty,
\* _save_data; ok = FALSE is a write that raised (caught and logged)
ManualCleanup(ok) ==
    /\ steps < MaxStaleSteps
    /\ steps' = steps + 1
    /\ accounts' = <<>>
    /\ pet_data' = EmptyStore
    /\ dirty' = mark_dirty(dirty, dirty_version).dirty
    /\ dirty_version' = mark_dirty(dirty, dirty_version).version
    /\ IF ok
       THEN /\ backups' = BackedUp(backups, disk)
            /\ disk' = FileOf(EmptyStore)
            /\ UNCHANGED io_failed
       ELSE /\ backups' \in {backups, BackedUp(backups, disk)}
            /\ disk' \in {disk, Corrupt}
            /\ io_failed' = TRUE
    /\ last' = Result("manual_cleanup", NoUser, 0, IF ok THEN "ok" ELSE "failed")
    /\ Quiet
    /\ UNCHANGED <<debt_queue, draining, now, pre, hist, save_pc,
                   version_before, data_copy, writer_pc, last_write,
                   market_pc, market_ticks, term_pc, ready, loadVars,
                   lockVars, market>>

\* the records _process_debt_queue works on: debtor and target as
\* _get_user_data returns them
TaskStore(accts, task, t) ==
    get_user_data(get_user_data(accts, task.debtor_id, t), task.target_id, t)

\* the records _get_user_data had to insert for the task
TaskCreated(accts, task) == {task.debtor_id, task.target_id} \ DOMAIN accts

\* what the task deducts from its target
TaskDeducted(accts, task, t) ==
    LET store == TaskStore(accts, task, t)
    IN store[task.debtor_id].loan_amount
         - Clawback(store, task)[task.debtor_id].loan_amount

\* the next task of the pass, on a store that may lack its records: both
\* are read with _get_user_data; both are saved when something was deducted
ProcessStoredTask(ok) ==
    /\ steps < MaxStaleSteps
    /\ steps' = steps + 1
    /\ draining # <<>>
    /\ LET task == Head(draining)
           saves == IF TaskDeducted(accounts, task, now) > 0 THEN 2 ELSE 0
           marks == Cardinality(TaskCreated(accounts, task)) + saves
       IN IF ok
          THEN /\ accounts' = Clawback(TaskStore(accounts, task, now), task)
               /\ dirty' = MarkedTimes(dirty, dirty_version, marks).dirty
               /\ dirty_version' =
                      MarkedTimes(dirty, dirty_version, marks).version
          ELSE UNCHANGED <<accounts, dirty, dirty_version>>
    /\ draining' = Tail(draining)
    /\ last' = Result("clawback", Head(draining).debtor_id,
                      Head(draining).amount, IF ok THEN "ok" ELSE "error")
    /\ Quiet
    /\ UNCHANGED <<debt_queue, now, pre, hist, pet_data, disk, backups,
                   save_pc, version_before, data_copy, writer_pc, last_write,
                   io_failed, market_pc, market_ticks, term_pc, ready,
                   loadVars, lockVars, market>>

NextStale ==
    \/ \E ok \in BOOLEAN : ManualCleanup(ok)
    \/ \E u \in ClawUsers : steps < MaxStaleSteps /\ GetUserData(u)
    \/ steps < MaxStaleSteps /\ DrainStart
    \/ \E ok \in BOOLEAN : ProcessStoredTask(ok)

SpecStale == InitClaw /\ [][NextStale]_vars

\* C27: a clawback task whose debtor owes nothing when it is processed
\* changes no record of the store (no field of the debtor or of the target,
\* no note) and leaves the dirty flag and the version as they were.
C27_SettledTaskChangesNothing ==
    [][(/\ last'.op = "clawback"
        /\ last'.user \in DOMAIN accounts
        /\ accounts[last'.user].loan_amount = 0) =>
          /\ accounts' = accounts
          /\ dirty' = dirty
          /\ dirty_version' = dirty_version]_vars

(***************************************************************************)
(* SpecCap: _update_loan_interest on one indebted account under several    *)
(* values of loan_interest_max_multiplier; `pre` holds the configured      *)
(* value in percent.  Time passes in half hours.                           *)
(***************************************************************************)
CapMultipliers == {-50, 0, 50, 100, 400}
\* <<loan_amount, loan_principal>>
CapDebts == {<<100, 100>>, <<150, 100>>, <<200, 100>>, <<1000, 1000>>,
             <<3, 3>>, <<1000, 0>>}

InitCap ==
    /\ \E debt \in CapDebts, frozen \in BOOLEAN :
          accounts = [u \in {1} |->
                        Debtor(INITIAL_COINS, 0, debt, frozen, <<>>, <<>>)]
    /\ \E pct \in CapMultipliers : pre = [max_multiplier |-> pct]
    /\ debt_queue = <<>>
    /\ draining = <<>>
    /\ now = 0
    /\ steps = 0
    /\ last = Result("init", NoUser, 0, "ok")
    /\ hist = <<>>
    /\ InitRest

\* the accrual step of a loan command of user u at the current time
CapAccrue(u) ==
    /\ Quiet
    /\ accounts' = [accounts EXCEPT
          ![u] = update_loan_interest_at(pre.max_multiplier,
                                         accounts[u], now).acct]
    /\ last' = Result("accrue", u, 0, "ok")
    /\ UNCHANGED <<debt_queue, draining, now, steps, pre, hist, restVars>>

NextCap ==
    \/ CapAccrue(1)
    \/ \E d \in AccrualTicks : AccrualTick(d)

SpecCap == InitCap /\ [][NextCap]_vars

\* C28: an accrual step on a non-frozen debt never lowers loan_amount; with
\* max_multiplier > 0 and loan_principal > 0 an amount it raises stays at or
\* below int(loan_principal * (1 + max_multiplier)); with max_multiplier
\* <= 0 the amount after a step of at least one whole hour is the full
\* compounded value int(loan_amount * (1 + rate) ** hours).
C28_AccrualCap ==
    [][\A u \in DOMAIN accounts :
        (/\ last'.op = "accrue" /\ last'.user = u
         /\ accounts[u].loan_amount > 0
         /\ ~accounts[u].loan_interest_frozen) =>
           LET a == accounts[u]
               pct == pre.max_multiplier
               hours == ElapsedHours(a, now)
               after == accounts'[u].loan_amount
           IN /\ after >= a.loan_amount
              /\ (pct > 0 /\ a.loan_principal > 0 /\ after > a.loan_amount) =>
                    after <= (a.loan_principal * (100 + pct)) \div 100
              /\ (pct <= 0 /\ hours >= 1) =>
                    after = (a.loan_amount * Pow(RateNum, hours))
                                \div Pow(RateDen, hours)]_vars

\* two hours on 100 of principal: capped at 150 under a multiplier of 0.5,
\* the full 225 under a multiplier of 0
C28_Witness ==
    /\ last.op = "accrue"
    /\ now = 7200
    /\ accounts[1].loan_principal = 100
    /\ \/ pre.max_multiplier = 50 /\ accounts[1].loan_amount = 150
       \/ pre.max_multiplier = 0 /\ accounts[1].loan_amount = 225

\* hours of idleness tried on every frozen account
MaxFrozenHours == 6

\* C29: for a frozen account _update_loan_interest returns the same
\* loan_amount after any number of elapsed hours, so bank_info leaves the
\* debt as it is, take_loan adds the borrowed amount only and repay_loan
\* only lowers it; and a step that takes a frozen account in debt to not
\* frozen ends with loan_amount = 0.
C29_FrozenDebtDoesNotGrow ==
    [][\A u \in DOMAIN accounts :
        accounts[u].loan_interest_frozen =>
          /\ \A h \in 0..MaxFrozenHours :
                LET r == update_loan_interest(accounts[u],
                                              now + h * SECONDS_PER_HOUR)
                IN r.acct.loan_amount = accounts[u].loan_amount /\ r.added = 0
          /\ (last'.user = u /\ last'.op = "bank_info") =>
                accounts'[u].loan_amount = accounts[u].loan_amount
          /\ (last'.user = u /\ last'.op = "take_loan") =>
                accounts'[u].loan_amount <= accounts[u].loan_amount + last'.arg
          /\ (last'.user = u /\ last'.op = "repay_loan") =>
                accounts'[u].loan_amount <= accounts[u].loan_amount
          /\ (accounts[u].loan_amount > 0
                /\ ~accounts'[u].loan_interest_frozen) =>
                accounts'[u].loan_amount = 0]_vars

\* two hours after the freeze bank_info ran the accrual step (the watermark
\* is at 7200) and user 1 still owes 100 and is still frozen
C29_Witness ==
    /\ last.op = "bank_info"
    /\ last.user = 1
    /\ now = 2 * SECONDS_PER_HOUR
    /\ accounts[1].last_loan_interest_time = now
    /\ accounts[1].loan_interest_frozen
    /\ accounts[1].loan_amount = 100
    /\ accounts[1].loan_principal = 100

\* the commands of the ledger that change the sender's balances
LedgerCommands ==
    {"take_loan", "repay_loan", "bank_info", "transfer", "purchase_pet"}

\* C30: every ledger command of a sender who is in debt, not frozen and at
\* least one whole hour past its watermark runs the accrual step: when the
\* command has completed, last_loan_interest_time is the time of the
\* command.
C30_EveryCommandAccrues ==
    [][\A u \in Users :
        (/\ last'.op \in LedgerCommands
         /\ last'.user = u
         /\ accounts[u].loan_amount > 0
         /\ ~accounts[u].loan_interest_frozen
         /\ ElapsedHours(accounts[u], now) >= 1) =>
           accounts'[u].last_loan_interest_time = now]_vars

(***************************************************************************)
(* SpecNet: commands as tasks that are suspended inside their critical     *)
(* section.  release_pet, batch_train and purchase_pet await               *)
(* _fetch_nickname (a call of the platform API) with their locks held;     *)
(* manual_cleanup takes no lock.  A handler's user_data and target_data    *)
(* are references to the records of the store: a record changed by another *)
(* task while the handler is suspended is changed for the handler too,     *)
(* and after pet_data[group_id] = {} the handler still holds the records   *)
(* the store has dropped (pre[p] keeps them for task p).                   *)
(***************************************************************************)
NetCommands ==
    {[op |-> "release_pet", user |-> 1, target |-> 2],
     [op |-> "purchase_pet", user |-> 3, target |-> 2],
     [op |-> "batch_train", user |-> 1, target |-> 2],
     [op |-> "manual_cleanup", user |-> NoUser, target |-> NoUser]}

\* pet_data[group_id][user_id] = data
StoreWith(accts, user_id, data) ==
    [k \in DOMAIN accts \cup {user_id} |->
        IF k = user_id THEN data ELSE accts[k]]

\* the number of records _get_user_data inserted between two stores
Inserted(before, after) == Cardinality(DOMAIN after \ DOMAIN before)

\* the records the locals of task p refer to
Held(p) == IF pre[p] = <<>> THEN accounts ELSE pre[p]

\* the part of a handler from its first _get_user_data to its first await
\* or to its return: the store, the calls of _mark_dirty, the next position
BodyUntilAwait(accts, c, t) ==
    LET s1 == get_user_data(accts, c.user, t)
        s2 == get_user_data(s1, c.target, t)
        cost == (s2[c.target].value * TrainCostPct) \div 100
    IN CASE c.op = "release_pet" ->
              IF ~InSeq(c.target, s1[c.user].pets)
              THEN [accts |-> s1, marks |-> Inserted(accts, s1),
                    next |-> "rel1"]
              ELSE [accts |-> s2, marks |-> Inserted(accts, s2),
                    next |-> "net"]
         [] c.op = "batch_train" ->
              IF ~InSeq(c.target, s1[c.user].pets)
              THEN [accts |-> s1, marks |-> Inserted(accts, s1),
                    next |-> "rel1"]
              ELSE IF s2[c.user].coins < cost
              THEN [accts |-> s2, marks |-> Inserted(accts, s2) + 1,
                    next |-> "rel1"]
              ELSE [accts |-> [s2 EXCEPT ![c.user].coins = @ - cost],
                    marks |-> Inserted(accts, s2), next |-> "net"]
         [] c.op = "purchase_pet" ->
              IF /\ s2[c.user].master # c.target
                 /\ ~InSeq(c.target, s2[c.user].pets)
                 /\ s2[c.target].master # c.user
                 /\ s2[c.user].coins >= s2[c.target].value
              THEN [accts |-> Purchased(s2, c.user, c.target, 10),
                    marks |-> Inserted(accts, s2)
                                + (IF s2[c.target].master = NoUser
                                   THEN 2 ELSE 3),
                    next |-> "net"]
              ELSE [accts |-> s2, marks |-> Inserted(accts, s2),
                    next |-> "rel2"]

\* the part of a handler after the await, on the records `held` its locals
\* refer to: the records it leaves, whether it saves them, the outcome
BodyAfterAwait(held, c, success) ==
    LET user == held[c.user]
        pet == held[c.target]
        refund == (pet.value * ReleaseRefundPct) \div 100
    IN CASE c.op = "release_pet" ->
              IF InSeq(c.target, user.pets)
              THEN [user |-> [user EXCEPT !.coins = @ + refund,
                                          !.pets = SeqRemove(@, c.target)],
                    pet |-> [pet EXCEPT !.master = NoUser],
                    saved |-> TRUE, res |-> "ok"]
              ELSE \* list.remove raises ValueError after the refund
                   [user |-> [user EXCEPT !.coins = @ + refund],
                    pet |-> pet, saved |-> FALSE, res |-> "error"]
         [] c.op = "batch_train" ->
              [user |-> user,
               pet |-> [pet EXCEPT !.value =
                          IF success
                          THEN pet.value + TrainIncrease + pet.value \div 10
                          ELSE Max(100, pet.value - TrainDecrease)],
               saved |-> TRUE, res |-> IF success THEN "ok" ELSE "failed"]
         [] c.op = "purchase_pet" ->
              [user |-> user, pet |-> pet, saved |-> FALSE, res |-> "ok"]

NetAccounts ==
    [u \in LockUsers |->
        [NewAccount(0) EXCEPT
            !.coins = 1000,
            !.pets = IF u = 1 THEN <<2>> ELSE <<>>,
            !.master = IF u = 2 THEN 1 ELSE NoUser]]

\* the accounts were created at time 0; the tasks run one hour later
InitNet ==
    /\ accounts = NetAccounts
    /\ debt_queue = <<>>
    /\ draining = <<>>
    /\ now = SECONDS_PER_HOUR
    /\ steps = 0
    /\ last = Result("init", NoUser, 0, "ok")
    /\ pre = [p \in Procs |-> <<>>]
    /\ hist = <<>>
    /\ InitPersist
    /\ load_pc = "done"
    /\ cmd \in [Procs -> NetCommands]
    /\ pc = [p \in Procs |-> "start"]
    /\ lockHolder = [u \in LockUsers |-> NoProc]
    /\ market = InitMarket
    /\ outbox = <<>>

idleInNet == <<debt_queue, draining, now, steps, hist, pet_data, save_pc,
               version_before, data_copy, writer_pc, last_write, market_pc,
               market_ticks, term_pc, ready, loadVars, cmd, lockHolder,
               envVars>>

NetBody(p) ==
    /\ pc[p] = "cs"
    /\ LET r == BodyUntilAwait(accounts, cmd[p], now)
       IN /\ accounts' = r.accts
          /\ dirty' = MarkedTimes(dirty, dirty_version, r.marks).dirty
          /\ dirty_version' = MarkedTimes(dirty, dirty_version, r.marks).version
          /\ pc' = [pc EXCEPT ![p] = r.next]
          /\ last' = Result(cmd[p].op, cmd[p].user, cmd[p].target,
                            IF r.next = "net" THEN "await" ELSE "rejected")
    /\ UNCHANGED <<pre, disk, backups, io_failed, idleInNet>>

\* the API call returns and the handler runs to its end
NetResume(p, success) ==
    /\ pc[p] = "net"
    /\ LET c == cmd[p]
           r == BodyAfterAwait(Held(p), c, success)
           marks == IF r.saved THEN 2 ELSE 0
       IN /\ accounts' =
                IF r.saved \/ pre[p] = <<>>
                THEN StoreWith(StoreWith(accounts, c.user, r.user),
                               c.target, r.pet)
                ELSE accounts
          /\ dirty' = MarkedTimes(dirty, dirty_version, marks).dirty
          /\ dirty_version' = MarkedTimes(dirty, dirty_version, marks).version
          /\ last' = Result(c.op, c.user, c.target, r.res)
    /\ pre' = [pre EXCEPT ![p] = <<>>]
    /\ pc' = [pc EXCEPT ![p] = IF Len(Locks(cmd[p])) = 2 THEN "rel2"
                                ELSE "rel1"]
    /\ UNCHANGED <<disk, backups, io_failed, idleInNet>>

\* manual_cleanup: the store of the group is replaced by an empty one while
\* suspended handlers keep the records they had read
NetCleanup(p, ok) ==
    /\ pc[p] = "start"
    /\ cmd[p].op = "manual_cleanup"
    /\ accounts' = <<>>
    /\ pre' = [q \in Procs |->
                 IF pc[q] = "net" /\ pre[q] = <<>> THEN accounts ELSE pre[q]]
    /\ dirty' = mark_dirty(dirty, dirty_version).dirty
    /\ dirty_version' = mark_dirty(dirty, dirty_version).version
    /\ IF ok
       THEN /\ backups' = BackedUp(backups, disk)
            /\ disk' = FileOf(EmptyStore)
            /\ UNCHANGED io_failed
       ELSE /\ backups' \in {backups, BackedUp(backups, disk)}
            /\ disk' \in {disk, Corrupt}
            /\ io_failed' = TRUE
    /\ pc' = [pc EXCEPT ![p] = "done"]
    /\ last' = Result("manual_cleanup", NoUser, 0, IF ok THEN "ok" ELSE "failed")
    /\ UNCHANGED idleInNet

NetStep(p) ==
    \/ cmd[p].op # "manual_cleanup" /\ Acquire1(p)
    \/ Acquire2(p)
    \/ NetBody(p)
    \/ \E success \in BOOLEAN : NetResume(p, success)
    \/ \E ok \in BOOLEAN : NetCleanup(p, ok)
    \/ Release2(p)
    \/ Release1(p)

NextNet == \E p \in Procs : NetStep(p)

SpecNet == InitNet /\ [][NextNet]_vars

\* C31: a task that waits for the platform API (the nickname lookup) holds
\* no entity lock.
C31_NoNetworkWaitUnderLock ==
    \A p \in Procs :
        pc[p] = "net" => \A u \in LockUsers : lockHolder[u] # p

\* release_pet of pet 2 by its master 1 next to purchase_pet of 2 by 3
ReleaseMeetsPurchase ==
    {cmd[p] : p \in Procs} =
        {[op |-> "release_pet", user |-> 1, target |-> 2],
         [op |-> "purchase_pet", user |-> 3, target |-> 2]}

\* what master 1 has received since the tasks started
PaidToMaster == accounts[1].coins - NetAccounts[1].coins

\* C37: when release_pet of pet 2 by master 1 and purchase_pet of 2 by user
\* 3 have both completed, master 1 was paid once (the 30% refund or the sale
\* price, not both), and for every two accounts T is in M's pets list
\* exactly if T.master = M.
C37_PaidOnceAndConsistent ==
    (ReleaseMeetsPurchase /\ \A p \in Procs : pc[p] = "done") =>
        /\ PaidToMaster \in
              {(NetAccounts[2].value * ReleaseRefundPct) \div 100,
               NetAccounts[2].value}
        /\ \A m \in DOMAIN accounts, t \in DOMAIN accounts :
              InSeq(t, accounts[m].pets) <=> accounts[t].master = m

\* C38: once manual_cleanup has completed, every record of the store was
\* created after the wipe (its creation stamp last_interest_time is the
\* time of the run, not the time 0 at which the wiped accounts were made).
C38_WipedAccountsStayGone ==
    (\E p \in Procs : cmd[p].op = "manual_cleanup" /\ pc[p] = "done") =>
        \A u \in DOMAIN accounts : accounts[u].last_interest_time = now

(***************************************************************************)
(* SpecSettle: _settle_investments on a list of two investments, active or *)
(* closed, due or not yet due, with or without an add-on.                  *)
(***************************************************************************)
MaxSettleSteps == 2

SettleStatus == {"active", "closed"}
SettleDue == {0, 7200}
\* <<amount, addon_amount>>
SettleInputs == {<<5000, 0>>, <<5000, 2000>>}

SettleInvestmentsDrawn ==
    {[amount |-> input[1], addon_amount |-> input[2],
      current_value |-> input[1] + input[2], status |-> st,
      next_settlement_time |-> due, trend_history |-> <<>>] :
        input \in SettleInputs, st \in SettleStatus, due \in SettleDue}

\* mutant: every investment draws from the primary table
TrendTable_MainOnly(investment) == MainRates

\* _get_investment_trend_addon with an add-on, else _get_investment_trend
TrendTable(investment) ==
    IF investment.addon_amount > 0 THEN AddonRates ELSE MainRates

\* the investments the loop does not skip
DueNow(investment, t) ==
    investment.status = "active" /\ t >= investment.next_settlement_time

SettledOne(investment, rate, t) ==
    IF DueNow(investment, t)
    THEN [Settled(investment, rate, t) EXCEPT
             !.trend_history = Append(@, rate)]
    ELSE investment

\* the message of one settled investment: the trigger, or the plain update
SettleMessage(investment, rate, t) ==
    IF check_investment_trigger(SettledOne(investment, rate, t)) = "none"
    THEN "update"
    ELSE check_investment_trigger(SettledOne(investment, rate, t))

RECURSIVE SettleMessages(_, _, _)
SettleMessages(investments, draws, t) ==
    IF investments = <<>> THEN <<>>
    ELSE (IF DueNow(Head(investments), t)
          THEN <<SettleMessage(Head(investments), Head(draws), t)>>
          ELSE <<>>)
         \o SettleMessages(Tail(investments), Tail(draws), t)

\* _settle_investments(user_data): draws[i] is the rate drawn for the i-th
\* investment (0 where the loop skips it)
SettleAll(u, draws) ==
    /\ steps < MaxSettleSteps
    /\ steps' = steps + 1
    /\ Len(draws) = Len(accounts[u].investments)
    /\ \A i \in 1..Len(draws) :
          IF DueNow(accounts[u].investments[i], now)
          THEN draws[i] \in TrendTable(accounts[u].investments[i])
          ELSE draws[i] = 0
    /\ accounts' = [accounts EXCEPT ![u].investments =
          [i \in 1..Len(@) |-> SettledOne(@[i], draws[i], now)]]
    /\ last' = Result("settle_investments", u, draws,
                      SettleMessages(accounts[u].investments, draws, now))
    /\ Quiet
    /\ UNCHANGED <<debt_queue, draining, now, pre, hist, restVars>>

InitSettle ==
    /\ \E first \in SettleInvestmentsDrawn, second \in SettleInvestmentsDrawn :
          accounts = [u \in InvestUsers |->
              [NewAccount(0) EXCEPT !.investments = <<first, second>>]]
    /\ debt_queue = <<>>
    /\ draining = <<>>
    /\ now = 0
    /\ steps = 0
    /\ last = Result("init", NoUser, 0, "ok")
    /\ pre = <<>>
    /\ hist = <<>>
    /\ InitRest

NextSettle ==
    \/ \E u \in InvestUsers,
          draws \in [1..2 -> MainRates \cup AddonRates \cup {0}] :
          SettleAll(u, draws)
    \/ \E d \in TickSteps : Tick(d)

SpecSettle == InitSettle /\ [][NextSettle]_vars

\* C32: _settle_investments keeps every investment and its status; an
\* active investment that is due gets exactly one draw (appended to its
\* trend history) from the add-on table when addon_amount > 0 and from the
\* primary table otherwise, its value becomes int(value * (1 + rate)) and
\* its next_settlement_time now + 3600; a trigger is reported as a message
\* only (no coins move); every other investment is left as it was.
C32_SettleNeverCloses ==
    [][\A u \in InvestUsers :
        (last'.op = "settle_investments" /\ last'.user = u) =>
          LET old == accounts[u].investments
              new == accounts'[u].investments
          IN /\ Len(new) = Len(old)
             /\ accounts'[u].coins = accounts[u].coins
             /\ Len(last'.res) =
                   Cardinality({i \in 1..Len(old) : DueNow(old[i], now)})
             /\ \A i \in 1..Len(old) :
                   IF old[i].status = "active"
                        /\ now >= old[i].next_settlement_time
                   THEN /\ new[i].status = "active"
                        /\ new[i].next_settlement_time = now + 3600
                        /\ new[i].amount = old[i].amount
                        /\ new[i].addon_amount = old[i].addon_amount
                        /\ Len(new[i].trend_history) =
                              Len(old[i].trend_history) + 1
                        /\ new[i].trend_history[Len(new[i].trend_history)]
                              \in (IF old[i].addon_amount > 0
                                   THEN AddonRates ELSE MainRates)
                        /\ new[i].current_value =
                              (old[i].current_value
                                 * (1000 + new[i].trend_history[
                                       Len(new[i].trend_history)])) \div 1000
                   ELSE new[i] = old[i]]_vars

\* the first investment hit take-profit (7000 grew to 7700) and is still
\* active; the second, not yet due, is as it was
C32_Witness ==
    /\ last.op = "settle_investments"
    /\ last.res = <<"take_profit">>
    /\ accounts[1].investments[1].status = "active"
    /\ accounts[1].investments[1].current_value = 7700
    /\ accounts[1].investments[1].next_settlement_time = now + 3600
    /\ accounts[1].investments[2].status = "active"
    /\ accounts[1].investments[2].next_settlement_time = 7200
    /\ accounts[1].investments[2].trend_history = <<>>
    /\ now < 7200

\* C33: no step raises the loan_amount of an account that is frozen: while
\* the flag is set the debt only goes down.
C33_FrozenDebtOnlyFalls ==
    [][\A u \in DOMAIN accounts :
        (accounts[u].loan_interest_frozen /\ u \in DOMAIN accounts') =>
            accounts'[u].loan_amount <= accounts[u].loan_amount]_vars

\* ---------------------------------------------------------------------
\* SpecDirty: the store of accounts, the dirty flag and the autosave loop.
\* `pre` holds the snapshot most recently written to the file with success.
\* ---------------------------------------------------------------------
MaxDirtySteps == 4

DirtyScenarios == {"new", "rich"}

dirtyIdle == <<debt_queue, draining, hist, pet_data, backups, writer_pc,
               last_write, io_failed, market_pc, market_ticks, term_pc,
               ready, loadVars, lockVars, market>>

InitDirty ==
    /\ \E scenario \in DirtyScenarios : accounts = BankAccounts(scenario)
    /\ debt_queue = <<>>
    /\ draining = <<>>
    /\ now = 0
    /\ steps = 0
    /\ last = Result("init", NoUser, 0, "ok")
    /\ pre = accounts
    /\ hist = <<>>
    /\ InitRest

\* deposit: _settle_bank_interest writes into the record of the store; a
\* rejection returns before _save_user_data, which is where _mark_dirty is
DirtyDeposit(u, amount) ==
    /\ steps < MaxDirtySteps
    /\ steps' = steps + 1
    /\ Quiet
    /\ amount > 0
    /\ LET user == settle_bank_interest(accounts[u], now)
           rejected == \/ user.coins < amount
                       \/ user.bank + amount > get_bank_limit(user.bank_level)
           marked == mark_dirty(dirty, dirty_version)
       IN IF rejected
          THEN /\ accounts' = [accounts EXCEPT ![u] = user]
               /\ UNCHANGED <<dirty, dirty_version>>
               /\ last' = Result("deposit", u, amount, "rejected")
          ELSE /\ accounts' = [accounts EXCEPT
                                 ![u] = [user EXCEPT !.coins = @ - amount,
                                                     !.bank = @ + amount]]
               /\ dirty' = marked.dirty
               /\ dirty_version' = marked.version
               /\ last' = Result("deposit", u, amount, "ok")
    /\ UNCHANGED <<now, pre, disk, save_pc, version_before, data_copy,
                   dirtyIdle>>

\* withdraw: the same shape
DirtyWithdraw(u, amount) ==
    /\ steps < MaxDirtySteps
    /\ steps' = steps + 1
    /\ Quiet
    /\ amount > 0
    /\ LET user == settle_bank_interest(accounts[u], now)
           marked == mark_dirty(dirty, dirty_version)
       IN IF user.bank < amount
          THEN /\ accounts' = [accounts EXCEPT ![u] = user]
               /\ UNCHANGED <<dirty, dirty_version>>
               /\ last' = Result("withdraw", u, amount, "rejected")
          ELSE /\ accounts' = [accounts EXCEPT
                                 ![u] = [user EXCEPT !.bank = @ - amount,
                                                     !.coins = @ + amount]]
               /\ dirty' = marked.dirty
               /\ dirty_version' = marked.version
               /\ last' = Result("withdraw", u, amount, "ok")
    /\ UNCHANGED <<now, pre, disk, save_pc, version_before, data_copy,
                   dirtyIdle>>

\* _auto_save_loop wakes from sleep(60) with an empty clawback queue: if
\* dirty, it records the version and _save_data_async deep-copies the store
DirtySaveStart ==
    /\ save_pc = "sleep"
    /\ steps < MaxDirtySteps
    /\ steps' = steps + 1
    /\ Quiet
    /\ IF dirty
       THEN /\ version_before' = dirty_version
            /\ data_copy' = accounts
            /\ save_pc' = "writing"
            /\ last' = Result("autosave", NoUser, 0, "writing")
       ELSE /\ UNCHANGED <<version_before, data_copy, save_pc>>
            /\ last' = Result("autosave", NoUser, 0, "clean")
    /\ UNCHANGED <<accounts, now, pre, disk, dirty, dirty_version, dirtyIdle>>

\* _write_data_file has finished in the worker thread (an exception is
\* caught and logged there) and _auto_save_loop resumes
DirtySaveEnd(ok) ==
    /\ save_pc = "writing"
    /\ Quiet
    /\ IF ok
       THEN disk' = FileOf(data_copy) /\ pre' = data_copy
       ELSE disk' = Corrupt /\ UNCHANGED pre
    /\ dirty' = DirtyAfterSave(dirty, dirty_version, version_before)
    /\ save_pc' = "sleep"
    /\ last' = Result("autosave_resume", NoUser, 0,
                      IF ok THEN "written" ELSE "failed")
    /\ UNCHANGED <<accounts, now, steps, dirty_version, version_before,
                   data_copy, dirtyIdle>>

NextDirty ==
    \/ \E u \in BankUsers, a \in DepositAmounts : DirtyDeposit(u, a)
    \/ \E u \in BankUsers, a \in DepositAmounts : DirtyWithdraw(u, a)
    \/ DirtySaveStart
    \/ \E ok \in BOOLEAN : DirtySaveEnd(ok)
    \/ \E d \in TickSteps : Tick(d)

SpecDirty == InitDirty /\ [][NextDirty]_vars

\* C34: whenever the dirty flag is false, the store in memory equals the
\* snapshot most recently written with success.
C34_CleanMeansWritten == ~dirty => accounts = pre

\* C35: at most one write of the ledger file is in progress at any time:
\* the synchronous _save_data of terminate never starts while the worker
\* thread has the file open for the autosave snapshot, and no write replaces
\* a readable file by an older snapshot.
C35_OneWriteAtATime ==
    [][/\ (term_pc' = "returned" /\ term_pc # "returned" /\ dirty) =>
              writer_pc # "open"
       /\ (disk.state = "ok" /\ disk'.state = "ok") =>
              disk'.data >= disk.data]_vars

\* ---------------------------------------------------------------------
\* SpecDrain: the clawback queue, the drain of the autosave loop and
\* terminate.
\* ---------------------------------------------------------------------
\* terminate, whole: the autosave task is cancelled at the await where it
\* is suspended (CancelledError is not an Exception, so the handler around
\* a task does not catch it) and the local list of the drain goes with it;
\* then the store is flushed if dirty.  debt_queue is neither drained nor
\* written.
DrainTerminate ==
    /\ term_pc = "running"
    /\ Quiet
    /\ term_pc' = "returned"
    /\ save_pc' = "done"
    /\ market_pc' = "done"
    /\ draining' = <<>>
    /\ backups' = IF dirty THEN BackedUp(backups, disk) ELSE backups
    /\ disk' = IF dirty THEN FileOf(pet_data) ELSE disk
    /\ last' = Result("terminate", NoUser, 0,
                      IF dirty THEN "flushed" ELSE "clean")
    /\ UNCHANGED <<accounts, debt_queue, now, steps, pre, hist, pet_data,
                   dirty, dirty_version, version_before, data_copy,
                   writer_pc, last_write, io_failed, market_ticks, ready,
                   loadVars, lockVars, market>>

NextDrain ==
    \/ term_pc = "running" /\ NextClaw
    \/ DrainTerminate

SpecDrain == InitClaw /\ [][NextDrain]_vars

\* the tasks that are pending: queued, or taken by a drain and not yet
\* processed
PendingTasks == Len(debt_queue) + Len(draining)

\* C36: a clawback task stops being pending only by being processed (also
\* when the autosave loop is cancelled during a drain), and no task is
\* pending when terminate returns.
C36_TasksLeaveOnlyProcessed ==
    [][/\ PendingTasks' < PendingTasks => last'.op = "clawback"
       /\ term_pc' = "returned" => PendingTasks' = 0]_vars

\* C39: ownership is symmetric in every state: t is in the pets list of m
\* exactly when the master of t is m.
C39_OwnershipSymmetric ==
    \A m, t \in DOMAIN accounts :
        InSeq(t, accounts[m].pets) <=> accounts[t].master = m

\* my_pets released pet 2, the cheaper one, when the lease of user 1 ended:
\* pet 3 is still held and pet 2 is free
C39_Witness ==
    /\ last.op = "my_pets"
    /\ last.res = "released"
    /\ accounts[1].pets = <<3>>
    /\ accounts[3].master = 1
    /\ accounts[2].master = NoUser

\* the times, counted from the watermark, at which accrual is invoked
SplitOffsets == {1800, 3600, 5400, 7200, 10800}

\* the cap does not bind on loan_amount
BelowCap(pct, a, loan) ==
    (pct > 0 /\ a.loan_principal > 0) => loan < MaxLoanAt(pct, a.loan_principal)

\* loan_amount after _update_loan_interest at t2 only
AccruedOnce(pct, a, t2) == update_loan_interest_at(pct, a, t2).acct.loan_amount

\* loan_amount after _update_loan_interest at t1 and again at t2
AccruedTwice(pct, a, t1, t2) ==
    update_loan_interest_at(pct, update_loan_interest_at(pct, a, t1).acct,
                            t2).acct.loan_amount

\* C40: for a non-frozen debt below the cap, the loan_amount reached at a
\* time t2 is the same whether accrual ran once at t2 or at an earlier time
\* t1 and again at t2, at whole hours or not.
C40_AccrualSplitIndependent ==
    \A u \in DOMAIN accounts :
        LET a == accounts[u]
            pct == pre.max_multiplier
            mark == a.last_loan_interest_time
        IN (a.loan_amount > 0 /\ ~a.loan_interest_frozen) =>
              \A d1, d2 \in SplitOffsets :
                  (/\ d1 < d2
                   /\ BelowCap(pct, a, AccruedOnce(pct, a, mark + d2))) =>
                      AccruedTwice(pct, a, mark + d1, mark + d2)
                          = AccruedOnce(pct, a, mark + d2)


====
